---- MODULE Spec2Model ----
(***************************************************************************)
(* Model of the chat_api.agents_sdk orchestration layer: intent detectors  *)
(* (intents.py), plan building, prompt building and dispatch (helpers.py), *)
(* and the routing entry point with response normalisation (runner.py).    *)
(* Texts are TLA+ strings; Len, SubSeq and \o act on them as on sequences  *)
(* of characters.                                                          *)
(***************************************************************************)
EXTENDS Integers, Sequences, FiniteSets, TLC

\* ---------------------------------------------------------------------------
\* Bounds
\* ---------------------------------------------------------------------------

\* Largest number of vocabulary words in a user message.
MaxWords == 2

\* ---------------------------------------------------------------------------
\* Python str primitives
\* ---------------------------------------------------------------------------

UpperLetters == "ABCDEFGHIJKLMNOPQRSTUVWXYZ"
LowerLetters == "abcdefghijklmnopqrstuvwxyz"
Digits == "0123456789"

CharAt(s, i) == IF i >= 1 /\ i <= Len(s) THEN SubSeq(s, i, i) ELSE ""

CharsOf(alphabet) == {SubSeq(alphabet, i, i) : i \in 1..Len(alphabet)}

UpperSet == CharsOf(UpperLetters)
LetterSet == CharsOf(UpperLetters) \cup CharsOf(LowerLetters)
DigitSet == CharsOf(Digits)

IsUpper(c) == c \in UpperSet
IsDigit(c) == c \in DigitSet
IsLetter(c) == c \in LetterSet
\* regex \w
IsWordChar(c) == IsLetter(c) \/ IsDigit(c) \/ c = "_"
\* regex \s and str.isspace
IsSpace(c) == c \in {" ", "\n", "\t", "\r"}

LowerOf ==
    [c \in UpperSet |->
        LET i == CHOOSE j \in 1..Len(UpperLetters) : SubSeq(UpperLetters, j, j) = c
        IN  SubSeq(LowerLetters, i, i)]

LowerChar(c) == IF IsUpper(c) THEN LowerOf[c] ELSE c

RECURSIVE LowerFrom(_, _)
LowerFrom(s, i) ==
    IF i > Len(s) THEN "" ELSE LowerChar(SubSeq(s, i, i)) \o LowerFrom(s, i + 1)

\* str.lower
Lower(s) == LowerFrom(s, 1)

\* str.strip
Strip(s) ==
    LET nonspace == {i \in 1..Len(s) : ~IsSpace(SubSeq(s, i, i))}
    IN  IF nonspace = {} THEN ""
        ELSE LET lo == CHOOSE i \in nonspace : \A j \in nonspace : i <= j
                 hi == CHOOSE i \in nonspace : \A j \in nonspace : i >= j
             IN  SubSeq(s, lo, hi)

\* " ".join(s.split()): whitespace runs collapsed to one blank, ends trimmed
RECURSIVE CollapseFrom(_, _, _)
CollapseFrom(s, i, pendingGap) ==
    IF i > Len(s) THEN ""
    ELSE LET c == SubSeq(s, i, i)
         IN  IF IsSpace(c) THEN CollapseFrom(s, i + 1, TRUE)
             ELSE (IF pendingGap THEN " " ELSE "") \o c \o CollapseFrom(s, i + 1, FALSE)

SplitJoin(s) ==
    LET t == Strip(s) IN CollapseFrom(t, 1, FALSE)

\* the substring test (k in t)
Contains(t, k) ==
    \E i \in 1..(Len(t) - Len(k) + 1) : SubSeq(t, i, i + Len(k) - 1) = k

\* literal k occurs in t starting at position i
At(t, i, k) == i >= 1 /\ i + Len(k) - 1 <= Len(t) /\ SubSeq(t, i, i + Len(k) - 1) = k

\* regex \b between position i-1 and position i
WordBoundary(t, i) == IsWordChar(CharAt(t, i - 1)) # IsWordChar(CharAt(t, i))

\* first position >= i that holds no whitespace (regex \s* consumed)
RECURSIVE SkipSpace(_, _)
SkipSpace(t, i) ==
    IF i <= Len(t) /\ IsSpace(SubSeq(t, i, i)) THEN SkipSpace(t, i + 1) ELSE i

\* regex \b(a1|a2|...)\b searched in t, the alternatives being literals
SearchWords(t, alts) ==
    \E a \in alts : \E i \in 1..(Len(t) - Len(a) + 1) :
        At(t, i, a) /\ WordBoundary(t, i) /\ WordBoundary(t, i + Len(a))

\* intents._norm
Norm(text) == SplitJoin(Lower(Strip(text)))

\* intents._matches
Matches(tokens, text) ==
    LET t == Norm(text) IN \E k \in tokens : Contains(t, k)

\* ---------------------------------------------------------------------------
\* intents.py
\* ---------------------------------------------------------------------------

SUMMARY_TOKENS ==
    {"summarize", "summarise", "in one sentence", "in 1 sentence",
     "one sentence", "short summary", "concise summary"}

COURSE_TOKENS ==
    {"course", "courses", "class", "classes", "elective", "electives",
     "curriculum", "advisor", "track", "major", "minor", "prereq", "prereqs",
     "prerequisite", "prerequisites", "credit", "credits", "unit", "units",
     "requirement", "requirements", "eligibility", "degree plan",
     "graduation requirements"}

SCHEDULE_TOKENS ==
    {"when", "date", "time", "schedule", "deadline", "window", "period",
     "term start", "start of term", "timetable", "calendar", "add/drop",
     "add drop", "census date", "midterm", "midterms", "final", "finals",
     "exam", "exams", "examination", "examinations", "graduation ceremony",
     "convocation"}

POEM_TOKENS ==
    {"poem", "poems", "haiku", "poetry", "write a poem", "write poem",
     "verse", "limerick"}

\* "cafe" with an acute accent is left out: the messages are ASCII.
CAMPUS_MARKERS ==
    {"campus", "student life", "students", "social life", "dorm", "dorms",
     "dormitory", "hostel", "residence hall", "library", "libraries", "quad",
     "student union", "cafeteria", "canteen", "mess", "coffee shop", "cafe",
     "club", "clubs", "society", "societies", "lecture hall", "classroom",
     "classrooms", "lab", "labs", "hallway", "late-night", "late night",
     "study", "study sessions", "orientation", "orientation week",
     "welcome week", "freshers", "freshers week", "orientation day",
     "club fair", "exam", "exams", "midterm", "midterms", "final", "finals",
     "fest", "fests", "festival", "festivals", "hackathon", "hackathons",
     "tech fest", "cultural fest", "career fair", "job fair", "meetup",
     "meetups"}

has_summary_intent(text) == Matches(SUMMARY_TOKENS, text)
has_course_intent(text) == Matches(COURSE_TOKENS, text)
has_schedule_intent(text) == Matches(SCHEDULE_TOKENS, text)
has_poem_intent(text) == Matches(POEM_TOKENS, text)
poem_is_campus(text) == Matches(CAMPUS_MARKERS, text)

\* ---------------------------------------------------------------------------
\* helpers.py: routing constants and patterns
\* ---------------------------------------------------------------------------

AGENT_KEYS == <<"poet", "scheduler", "advisor">>
AgentKeySet == {AGENT_KEYS[i] : i \in 1..Len(AGENT_KEYS)}

\* AGENT_ORDER.get(k, 99)
AGENT_ORDER(k) ==
    CASE k = "poet" -> 0
      [] k = "scheduler" -> 1
      [] k = "advisor" -> 2
      [] OTHER -> 99

HANDOFF_START == "Triage"

\* agents[key].name as set by build_agents
AgentName(key) ==
    CASE key = "triage" -> "Triage"
      [] key = "advisor" -> "CourseAdvisor"
      [] key = "scheduler" -> "SchedulingAssistant"
      [] key = "poet" -> "UniversityPoet"

\* DISPLAY_TO_KEY.get(name, "advisor")
DISPLAY_TO_KEY(name) ==
    CASE name = "UniversityPoet" -> "poet"
      [] name = "SchedulingAssistant" -> "scheduler"
      [] name = "CourseAdvisor" -> "advisor"
      [] OTHER -> "advisor"

\* literal a, then \s* (at least minGap blanks), then literal b, from i
GapPhraseAt(t, i, a, minGap, b) ==
    /\ At(t, i, a)
    /\ LET j == SkipSpace(t, i + Len(a))
       IN  j - (i + Len(a)) >= minGap /\ At(t, j, b)

GapPhraseEnd(t, i, a, b) == SkipSpace(t, i + Len(a)) + Len(b)

\* add\s*/?\s*drop from i: the position after the match, 0 when no match
AddDropEnd(t, i, gapBeforeSlash) ==
    IF ~At(t, i, "add") THEN 0
    ELSE LET j1 == IF gapBeforeSlash THEN SkipSpace(t, i + 3) ELSE i + 3
             j2 == IF CharAt(t, j1) = "/" THEN j1 + 1 ELSE j1
             j3 == SkipSpace(t, j2)
         IN  IF At(t, j3, "drop") THEN j3 + 4 ELSE 0

\* _EXPLICIT_TIME_ASK.search (re.I)
EXPLICIT_TIME_ASK(text) ==
    LET t == Lower(text)
    IN  \/ SearchWords(t, {"when", "what time", "what times", "what date",
                           "what dates", "date", "dates", "time", "times",
                           "schedule", "schedules", "deadline", "deadlines",
                           "window", "windows", "period", "periods",
                           "timetable", "calendar", "census date",
                           "start of term", "term start"})
        \/ \E i \in 1..Len(t) :
              LET e == AddDropEnd(t, i, FALSE)
              IN  e # 0 /\ WordBoundary(t, i) /\ WordBoundary(t, e)

\* _FIELD_QUESTION.search (re.I)
FIELD_QUESTION(text) ==
    LET t == Lower(text)
    IN  \E a \in {"midterm", "midterms", "final", "finals", "exam", "exams"} :
          \E i \in 1..Len(t) :
             /\ At(t, i, a)
             /\ WordBoundary(t, i)
             /\ CharAt(t, SkipSpace(t, i + Len(a))) = "?"

\* _ADVISE_WORDS_REGEX.search (re.I)
ADVISE_WORDS_REGEX(text) ==
    SearchWords(Lower(text),
        {"elective", "electives", "prereq", "prereqs", "prerequisite",
         "prerequisites", "credit", "credits", "unit", "units", "requirement",
         "requirements", "eligibility", "recommend", "recommendation",
         "advisor", "advise", "suggest"})

ADVISE_PHRASES ==
    {"which course", "what courses", "degree plan", "course plan",
     "plan my courses", "track"}

\* \d{4}-\d{2}-\d{2} from i
IsoDateAt(t, i) ==
    /\ i + 9 <= Len(t)
    /\ \A k \in {0, 1, 2, 3, 5, 6, 8, 9} : IsDigit(CharAt(t, i + k))
    /\ CharAt(t, i + 4) = "-"
    /\ CharAt(t, i + 7) = "-"

\* _SPECIFIC_DAY.search (re.I)
SPECIFIC_DAY(text) ==
    LET t == Lower(text)
    IN  \/ SearchWords(t, {"today", "tomorrow", "day after tomorrow"})
        \/ \E i \in 1..Len(t) :
              IsoDateAt(t, i) /\ WordBoundary(t, i) /\ WordBoundary(t, i + 10)

\* _COURSE_CODE.search: \b[A-Z]{2,4}\d{3}\b, case-sensitive
COURSE_CODE(text) ==
    \E i \in 1..Len(text) : \E n \in 2..4 :
        /\ i + n + 2 <= Len(text)
        /\ \A k \in 0..(n - 1) : IsUpper(CharAt(text, i + k))
        /\ \A k \in n..(n + 2) : IsDigit(CharAt(text, i + k))
        /\ WordBoundary(text, i)
        /\ WordBoundary(text, i + n + 3)

\* _CLASS_SCHEDULE_PHRASE.search (re.I)
CLASS_SCHEDULE_PHRASE(text) ==
    SearchWords(Lower(text), {"class schedule", "schedule for"})

\* _Orchestrator._has_advising_action
has_advising_action(text) ==
    LET t == Lower(text)
    IN  IF \E p \in ADVISE_PHRASES : Contains(t, p) THEN TRUE
        ELSE ADVISE_WORDS_REGEX(t)

\* ---------------------------------------------------------------------------
\* helpers.py: schedule field targeting
\* ---------------------------------------------------------------------------

\* \badd\s*/?\s*drop\b|add[- ]drop\b|adddrop\b
AddDropPattern(t) ==
    \/ \E i \in 1..Len(t) :
          LET e == AddDropEnd(t, i, TRUE)
          IN  e # 0 /\ WordBoundary(t, i) /\ WordBoundary(t, e)
    \/ \E i \in 1..Len(t) : \E lit \in {"add-drop", "add drop", "adddrop"} :
          At(t, i, lit) /\ WordBoundary(t, i + Len(lit))

\* the text between positions i and j-1 holds no newline (regex .*)
NoNewline(t, i, j) == \A k \in i..(j - 1) : CharAt(t, k) # "\n"

\* a\b.*\bb from i, closed by \b
FarPhrase(t, i, a, b) ==
    /\ At(t, i, a)
    /\ WordBoundary(t, i + Len(a))
    /\ \E k \in (i + Len(a))..Len(t) :
          /\ At(t, k, b)
          /\ NoNewline(t, i + Len(a), k)
          /\ WordBoundary(t, k)
          /\ WordBoundary(t, k + Len(b))

\* \b(term\s*start|term\b.*\bstart|start\b.*\bterm)\b
TermStartPattern(t) ==
    \E i \in 1..Len(t) :
        /\ WordBoundary(t, i)
        /\ \/ GapPhraseAt(t, i, "term", 0, "start")
              /\ WordBoundary(t, GapPhraseEnd(t, i, "term", "start"))
           \/ FarPhrase(t, i, "term", "start")
           \/ FarPhrase(t, i, "start", "term")

\* \b(graduation\s+ceremony|convocation|ceremony)\b
CeremonyPattern(t) ==
    \/ SearchWords(t, {"convocation", "ceremony"})
    \/ \E i \in 1..Len(t) :
          /\ WordBoundary(t, i)
          /\ GapPhraseAt(t, i, "graduation", 1, "ceremony")
          /\ WordBoundary(t, GapPhraseEnd(t, i, "graduation", "ceremony"))

\* \bclass\s*times?\b|\bclass\s*timings?\b|\bclass\s*hours?\b
ClassTimesPattern(t) ==
    \E i \in 1..Len(t) :
       \E w \in {"time", "times", "timing", "timings", "hour", "hours"} :
          /\ WordBoundary(t, i)
          /\ GapPhraseAt(t, i, "class", 0, w)
          /\ WordBoundary(t, GapPhraseEnd(t, i, "class", w))

\* _PATTERNS_TO_FIELDS: the field of entry n, and whether its pattern is found
PatternField(n) ==
    CASE n = 1 -> "midterms_window"
      [] n = 2 -> "finals_window"
      [] n = 3 -> "finals_window"
      [] n = 4 -> "add_drop_deadline"
      [] n = 5 -> "term_start"
      [] n = 6 -> "graduation_ceremony"
      [] n = 7 -> "class_times"

PatternSearch(n, text) ==
    LET t == Lower(text)
    IN  CASE n = 1 -> SearchWords(t, {"midterm", "midterms"})
          [] n = 2 -> SearchWords(t, {"final", "finals"})
          [] n = 3 -> SearchWords(t, {"exam", "exams"})
          [] n = 4 -> AddDropPattern(t)
          [] n = 5 -> TermStartPattern(t)
          [] n = 6 -> CeremonyPattern(t)
          [] n = 7 -> ClassTimesPattern(t)

NumPatterns == 7

RECURSIVE FieldsFrom(_, _)
FieldsFrom(text, n) ==
    IF n > NumPatterns THEN <<>>
    ELSE (IF PatternSearch(n, text) THEN <<PatternField(n)>> ELSE <<>>)
         \o FieldsFrom(text, n + 1)

\* _Orchestrator._requested_schedule_fields
requested_schedule_fields(msg) == FieldsFrom(Lower(msg), 1)

\* ---------------------------------------------------------------------------
\* helpers.py: plan building
\* ---------------------------------------------------------------------------

\* list(dict.fromkeys(plan)): first occurrences, in order
RECURSIVE Dedupe(_)
Dedupe(seq) ==
    IF seq = <<>> THEN <<>>
    ELSE LET init == Dedupe(SubSeq(seq, 1, Len(seq) - 1))
             last == seq[Len(seq)]
         IN  IF \E i \in 1..Len(init) : init[i] = last THEN init
             ELSE Append(init, last)

\* x put behind the elements of the sorted list whose rank is not larger
InsertByOrder(x, sorted) ==
    LET n == Cardinality({i \in 1..Len(sorted) : AGENT_ORDER(sorted[i]) <= AGENT_ORDER(x)})
    IN  SubSeq(sorted, 1, n) \o <<x>> \o SubSeq(sorted, n + 1, Len(sorted))

\* the sort left out: the keys stay in the order they were appended in
SortedByOrder_Unsorted(seq) == seq

\* sorted(seq, key=lambda k: AGENT_ORDER.get(k, 99)), a stable sort
RECURSIVE SortedByOrder(_)
SortedByOrder(seq) ==
    IF seq = <<>> THEN <<>>
    ELSE InsertByOrder(seq[Len(seq)], SortedByOrder(SubSeq(seq, 1, Len(seq) - 1)))

\* the router's output taken as the label as it stands
TriageLabel_Raw(final_output) == final_output

\* str(triage_out.final_output or "").strip().lower()
TriageLabel(final_output) == Lower(Strip(final_output))

\* the scheduler appended on schedule intent alone, poem or not, ask or not
SchedulerStep_IntentOnly(message) ==
    IF has_schedule_intent(message) THEN <<"scheduler">> ELSE <<>>

\* the scheduler step with a queued poem suppressing the scheduler, asked
\* for explicitly or not
SchedulerStep_PoemSuppresses(message) ==
    IF /\ has_schedule_intent(message)
       /\ EXPLICIT_TIME_ASK(message) \/ FIELD_QUESTION(message)
       /\ ~(has_poem_intent(message) /\ poem_is_campus(message))
    THEN <<"scheduler">> ELSE <<>>

\* the scheduler step of _build_plan: keys appended for schedule intent
SchedulerStep(message) ==
    IF has_schedule_intent(message)
    THEN LET time_word == EXPLICIT_TIME_ASK(message)
             field_q == FIELD_QUESTION(message)
             explicit_schedule == time_word \/ field_q
             poem_only == has_poem_intent(message) /\ poem_is_campus(message)
                          /\ ~explicit_schedule
         IN  IF ~poem_only /\ explicit_schedule THEN <<"scheduler">> ELSE <<>>
    ELSE <<>>

\* the plan without the fallback to the advisor on an empty plan
AppendedPlan_NoFallback(message, triage_label) ==
    LET p1 == IF triage_label \in AgentKeySet THEN <<triage_label>> ELSE <<>>
        p2 == IF has_poem_intent(message) /\ poem_is_campus(message)
              THEN Append(p1, "poet") ELSE p1
        p3 == p2 \o SchedulerStep(message)
    IN  IF has_course_intent(message)
           /\ (~has_schedule_intent(message) \/ has_advising_action(message))
        THEN Append(p3, "advisor") ELSE p3

\* the plan with the advisor appended on course intent alone
AppendedPlan_CourseAlone(message, triage_label) ==
    LET p1 == IF triage_label \in AgentKeySet THEN <<triage_label>> ELSE <<>>
        p2 == IF has_poem_intent(message) /\ poem_is_campus(message)
              THEN Append(p1, "poet") ELSE p1
        p3 == p2 \o SchedulerStep(message)
    IN  IF has_course_intent(message) \/ p3 = <<>>
        THEN Append(p3, "advisor") ELSE p3

\* the plan of _build_plan before the final dedupe and sort
AppendedPlan(message, triage_label) ==
    LET p1 == IF triage_label \in AgentKeySet THEN <<triage_label>> ELSE <<>>
        p2 == IF has_poem_intent(message) /\ poem_is_campus(message)
              THEN Append(p1, "poet") ELSE p1
        p3 == p2 \o SchedulerStep(message)
        p4 == IF \/ has_course_intent(message)
                    /\ (~has_schedule_intent(message) \/ has_advising_action(message))
                 \/ p3 = <<>>
              THEN Append(p3, "advisor") ELSE p3
    IN  p4

\* _Orchestrator._build_plan, given the router's final output
build_plan(message, triage_final_output) ==
    SortedByOrder(Dedupe(AppendedPlan(message, TriageLabel(triage_final_output))))

\* ---------------------------------------------------------------------------
\* helpers.py: prompt builders.  A prompt is its template and the values
\* folded into it.
\* ---------------------------------------------------------------------------

RECURSIVE JoinWith(_, _)
\* sep.join(seq)
JoinWith(seq, sep) ==
    IF seq = <<>> THEN ""
    ELSE IF Len(seq) = 1 THEN seq[1]
    ELSE seq[1] \o sep \o JoinWith(Tail(seq), sep)

REFUSAL_SENTENCE == "Details for that specific schedule are not available in the current data."

\* _Orchestrator._poet_prompt
poet_prompt(message) ==
    [template |-> "poet_haiku", field_list |-> "", quoted |-> "", message |-> message]

\* the specific-item test without the course-code pattern
scheduler_prompt_NoCourseCode(message) ==
    LET msg_lc == Lower(message)
        wants_specific == SPECIFIC_DAY(msg_lc) \/ CLASS_SCHEDULE_PHRASE(msg_lc)
        fields == requested_schedule_fields(message)
    IN  IF wants_specific
        THEN [template |-> "scheduler_specific_refusal", field_list |-> "",
              quoted |-> REFUSAL_SENTENCE, message |-> ""]
        ELSE IF fields # <<>>
        THEN [template |-> "scheduler_fields", field_list |-> JoinWith(fields, ", "),
              quoted |-> "", message |-> ""]
        ELSE [template |-> "scheduler_default",
              field_list |-> "term_start, add_drop_deadline, midterms_window, finals_window, graduation_ceremony",
              quoted |-> "", message |-> ""]

\* _Orchestrator._scheduler_prompt
scheduler_prompt(message) ==
    LET msg_lc == Lower(message)
        wants_specific == \/ SPECIFIC_DAY(msg_lc)
                          \/ COURSE_CODE(message)
                          \/ CLASS_SCHEDULE_PHRASE(msg_lc)
        fields == requested_schedule_fields(message)
    IN  IF wants_specific
        THEN [template |-> "scheduler_specific_refusal", field_list |-> "",
              quoted |-> REFUSAL_SENTENCE, message |-> ""]
        ELSE IF fields # <<>>
        THEN [template |-> "scheduler_fields", field_list |-> JoinWith(fields, ", "),
              quoted |-> "", message |-> ""]
        ELSE [template |-> "scheduler_default",
              field_list |-> "term_start, add_drop_deadline, midterms_window, finals_window, graduation_ceremony",
              quoted |-> "", message |-> ""]

\* _Orchestrator._advisor_prompt
advisor_prompt(message, summary) ==
    IF summary
    THEN [template |-> "advisor_summary", field_list |-> "", quoted |-> "", message |-> message]
    ELSE [template |-> "advisor_standard", field_list |-> "", quoted |-> "", message |-> message]

\* the prompt dispatch builds for a plan step
StepPrompt(step, message) ==
    CASE step = "poet" -> poet_prompt(message)
      [] step = "scheduler" -> scheduler_prompt(message)
      [] step = "advisor" -> advisor_prompt(message, has_summary_intent(message))

\* ---------------------------------------------------------------------------
\* runner.py: _TextNormalizer
\* ---------------------------------------------------------------------------

\* The en dash (U+2013) and the em dash (U+2014) of DASHES_MAP are written
\* with two characters that occur in no other role in the texts.
EN_DASH == "~"
EM_DASH == "^"

\* regex ^ under re.M
LineStart(s, i) == i = 1 \/ CharAt(s, i - 1) = "\n"

\* regex $ under re.M
LineEnd(s, i) == i = Len(s) + 1 \/ CharAt(s, i) = "\n"

\* first position k >= i with lit at k and no newline in i..k-1; 0 when none
RECURSIVE FindOnLine(_, _, _)
FindOnLine(s, i, lit) ==
    IF i > Len(s) THEN 0
    ELSE IF At(s, i, lit) THEN i
    ELSE IF CharAt(s, i) = "\n" THEN 0
    ELSE FindOnLine(s, i + 1, lit)

\* SCHED_MD_LABEL = ^\s*-\s*\*\*(.+?)\*\*:\s* tried at i:
\* <<position after the match, group 1>>, or <<0, "">>
SchedLabelMatch(s, i) ==
    LET j == SkipSpace(s, i)
        k == SkipSpace(s, j + 1)
        \* (.+?) takes at least one character that is not a newline
        c == IF CharAt(s, k + 2) \in {"", "\n"} THEN 0 ELSE FindOnLine(s, k + 3, "**:")
    IN  IF LineStart(s, i) /\ CharAt(s, j) = "-" /\ At(s, k, "**") /\ c # 0
        THEN <<SkipSpace(s, c + 3), SubSeq(s, k + 2, c - 1)>>
        ELSE <<0, "">>

RECURSIVE SubSchedLabel(_, _)
SubSchedLabel(s, i) ==
    IF i > Len(s) THEN ""
    ELSE LET m == SchedLabelMatch(s, i)
         IN  IF m[1] # 0 THEN m[2] \o ": " \o SubSchedLabel(s, m[1])
             ELSE CharAt(s, i) \o SubSchedLabel(s, i + 1)

\* SCHED_BULLETS = ^\s*-\s* tried at i: position after the match, or 0
SchedBulletMatch(s, i) ==
    LET j == SkipSpace(s, i)
    IN  IF LineStart(s, i) /\ CharAt(s, j) = "-" THEN SkipSpace(s, j + 1) ELSE 0

RECURSIVE SubSchedBullets(_, _)
SubSchedBullets(s, i) ==
    IF i > Len(s) THEN ""
    ELSE LET e == SchedBulletMatch(s, i)
         IN  IF e # 0 THEN SubSchedBullets(s, e)
             ELSE CharAt(s, i) \o SubSchedBullets(s, i + 1)

RECURSIVE TranslateDashes(_, _)
\* s.translate(DASHES_MAP)
TranslateDashes(s, i) ==
    IF i > Len(s) THEN ""
    ELSE (IF CharAt(s, i) \in {EN_DASH, EM_DASH} THEN "-" ELSE CharAt(s, i))
         \o TranslateDashes(s, i + 1)

\* _TextNormalizer.scheduler
NormalizeScheduler(text) ==
    IF text = "" THEN text
    ELSE LET s1 == SubSchedLabel(text, 1)
             s2 == SubSchedBullets(s1, 1)
             s3 == TranslateDashes(s2, 1)
         IN  Strip(s3)

\* The backtick (U+0060) of ADVISOR_CODEFENCE is written with a character
\* that occurs in no other role in the texts.
BACKTICK == "#"

\* first position >= i that holds no backtick
RECURSIVE SkipTicks(_, _)
SkipTicks(s, i) == IF CharAt(s, i) = BACKTICK THEN SkipTicks(s, i + 1) ELSE i

\* first position >= i where the line ends
RECURSIVE ToLineEnd(_, _)
ToLineEnd(s, i) == IF LineEnd(s, i) THEN i ELSE ToLineEnd(s, i + 1)

\* the largest position in lo..hi where the line ends, 0 when none
LastLineEnd(s, lo, hi) ==
    LET ends == {e \in lo..hi : LineEnd(s, e)}
    IN  IF ends = {} THEN 0 ELSE CHOOSE e \in ends : \A f \in ends : f <= e

\* ADVISOR_CODEFENCE = ^\s*F.*?$|F\s*$ tried at i, F being three or more
\* backticks:
\* position after the match, or 0
CodeFenceMatch(s, i) ==
    LET j == SkipSpace(s, i)
        t1 == SkipTicks(s, j)
        first == IF LineStart(s, i) /\ t1 - j >= 3 THEN ToLineEnd(s, t1) ELSE 0
        t2 == SkipTicks(s, i)
        second == IF t2 - i >= 3 THEN LastLineEnd(s, t2, SkipSpace(s, t2)) ELSE 0
    IN  IF first # 0 THEN first ELSE second

RECURSIVE SubCodeFence(_, _)
SubCodeFence(s, i) ==
    IF i > Len(s) THEN ""
    ELSE LET e == CodeFenceMatch(s, i)
         IN  IF e # 0 THEN SubCodeFence(s, e)
             ELSE CharAt(s, i) \o SubCodeFence(s, i + 1)

\* ADVISOR_BOLD = \*\*(.+?)\*\* tried at i: position of the closing "**", or 0
BoldMatch(s, i) ==
    IF At(s, i, "**") /\ CharAt(s, i + 2) \notin {"", "\n"}
    THEN FindOnLine(s, i + 3, "**")
    ELSE 0

RECURSIVE SubBold(_, _)
SubBold(s, i) ==
    IF i > Len(s) THEN ""
    ELSE LET c == BoldMatch(s, i)
         IN  IF c # 0 THEN SubSeq(s, i + 2, c - 1) \o SubBold(s, c + 2)
             ELSE CharAt(s, i) \o SubBold(s, i + 1)

\* _TextNormalizer.advisor
NormalizeAdvisor(text) ==
    IF text = "" THEN text
    ELSE Strip(SubBold(SubCodeFence(text, 1), 1))

\* ---------------------------------------------------------------------------
\* Inputs of a turn
\* ---------------------------------------------------------------------------

\* Words of user messages: no signal; poem; campus; schedule token that is
\* also a campus marker and a field; explicit time ask; question mark;
\* course intent without and with an advising word; a schedule token only
\* as a substring; a field name in mixed case.
Words ==
    {"hello", "haiku", "library", "exam", "when", "?", "courses", "credits",
     "sometimes", "Midterms"}

RECURSIVE MessagesOfLen(_)
MessagesOfLen(n) ==
    IF n = 0 THEN {""}
    ELSE IF n = 1 THEN Words
    ELSE {m \o " " \o w : m \in MessagesOfLen(n - 1), w \in Words}

\* the messages made of up to MaxWords words
Messages == UNION {MessagesOfLen(n) : n \in 0..MaxWords}

\* the messages whole turns are run on
TurnMessages ==
    {"", "hello",
     "write a haiku about the library",
     "haiku about the exam",
     "haiku about finals, when are they?",
     "when is the final exam",
     "When do midterms start?",
     "exam today",
     "when is the DS201 exam",
     "when is the ds201 exam",
     "exam schedule for 2025-01-15",
     "what time is class tomorrow",
     "courses and credits",
     "when are course deadlines",
     "summarize my courses"}

\* final_output of the router: the three labels, a label with other case and
\* surrounding whitespace, an unknown label, nothing
TriageOutputs == {"poet", "scheduler", "advisor", " Advisor\n", "none", ""}

\* final_output of a specialist: nothing, blanks, the refusal sentence, a
\* bulleted bold label with an en dash, a lone bullet, a lone code fence
SpecialistOutputs ==
    {"", " \n", REFUSAL_SENTENCE, "- **Finals**: May 1 ~ May 9", "- ", "###"}

\* Python None as the value of force_agent
NoForce == "<None>"
ForceValues == AgentKeySet \cup {NoForce, "triage"}

\* values of the environment variable OPENAI_API_KEY (unset reads as "")
ApiKeys == {"", "  ", "sk-test"}

SessionIds == {"s1"}

CONFIG_MESSAGE == "Configuration issue: set OPENAI_API_KEY in your environment and restart the server."
NO_REPLY == "No reply produced."

\* ---------------------------------------------------------------------------
\* State
\* ---------------------------------------------------------------------------

VARIABLES
    env_key,        \* os.getenv("OPENAI_API_KEY", "")
    pc,             \* position of the turn
    caller,         \* "runner": run_with_agents_sdk; "direct": dispatch_message
    message,        \* the turn's message
    session_id,     \* the turn's session id
    force_agent,    \* dispatch_message's force_agent
    session_open,   \* a SQLiteSession exists for the turn
    session_items,  \* agents whose run has written to the session, in order
    invocations,    \* Runner.run_sync calls made, in order, with their input
    triage_out,     \* the router's final_output
    plan,           \* dispatch's plan
    step,           \* index in plan of the step being run
    segments,       \* dispatch's segments list
    handoff_chain,  \* dispatch's handoff_chain list
    routed,         \* the DispatchResult returned by dispatch_message
    payload,        \* the dict returned by run_with_agents_sdk
    norm_agent,     \* _TextNormalizer: the method applied, "scheduler" or "advisor"
    norm_texts,     \* _TextNormalizer: the text, then the result of each application
    tool_call,      \* tools.py: the tool called and its arguments
    tool_pc,        \* tools.py: "called", "returned" or "raised"
    api_response,   \* tools.py: what _client.responses.create did
    tool_result,    \* tools.py: what the tool returned
    request,        \* views.py: the JSON body of the last chat request
    response,       \* views.py: the answer to the last chat request
    requests_made,  \* views.py: number of chat requests answered
    uuids_made,     \* views.py: number of uuid.uuid4() calls
    opened,         \* runner.py: session ids a SQLiteSession was opened for
    AGENTS_CACHE,   \* agents.py: _AGENTS_CACHE, 0 for None, n for the n-th registry built
    builds,         \* agents.py: number of build_agents() calls that returned
    thread_pc,      \* agents.py: position of each thread in get_agents
    thread_built,   \* agents.py: the registry a thread built and has not yet stored
    thread_agents,  \* agents.py: the registries get_agents returned to each thread
    thread_calls    \* agents.py: number of get_agents calls each thread has made

turn_vars == <<pc, caller, message, session_id, force_agent, session_open,
               session_items, invocations, triage_out, plan, step, segments,
               handoff_chain, routed, payload>>

norm_vars == <<norm_agent, norm_texts>>

tool_vars == <<tool_call, tool_pc, api_response, tool_result>>

view_vars == <<request, response, requests_made, uuids_made, opened>>

registry_vars == <<AGENTS_CACHE, builds, thread_pc, thread_built, thread_agents, thread_calls>>

vars == <<env_key, turn_vars, norm_vars, tool_vars, view_vars, registry_vars>>

NoRouted ==
    [segments |-> <<>>, handoff_chain |-> <<>>, agent_key |-> "",
     agent_name |-> "", text |-> ""]

\* handoff is <<>> for None and <<s>> for the string s
NoPayload ==
    [session_id |-> "", agent |-> "", segments |-> <<>>, response |-> "",
     handoff |-> <<>>]

\* no turn has started
TurnIdle ==
    /\ pc = "idle"
    /\ caller = ""
    /\ message = ""
    /\ session_id = ""
    /\ force_agent = NoForce
    /\ session_open = FALSE
    /\ session_items = <<>>
    /\ invocations = <<>>
    /\ triage_out = ""
    /\ plan = <<>>
    /\ step = 0
    /\ segments = <<>>
    /\ handoff_chain = <<>>
    /\ routed = NoRouted
    /\ payload = NoPayload

\* no normaliser has been applied outside a turn
NormIdle == norm_agent = "" /\ norm_texts = <<>>

\* no tool has been called
ToolIdle ==
    /\ tool_call = [tool |-> ""]
    /\ tool_pc = "idle"
    /\ api_response = <<>>
    /\ tool_result = <<>>

\* no chat request has been received
ViewIdle ==
    /\ request = [message |-> <<>>, session_id |-> <<>>]
    /\ response = [status |-> 0]
    /\ requests_made = 0
    /\ uuids_made = 0
    /\ opened = {}

\* the module agents.py is loaded, no thread is in get_agents
RegistryIdle ==
    /\ AGENTS_CACHE = 0
    /\ builds = 0
    /\ thread_pc = <<>>
    /\ thread_built = <<>>
    /\ thread_agents = <<>>
    /\ thread_calls = <<>>

Init ==
    /\ env_key \in ApiKeys
    /\ TurnIdle
    /\ NormIdle
    /\ ToolIdle
    /\ ViewIdle
    /\ RegistryIdle

\* ---------------------------------------------------------------------------
\* helpers.py: dispatch
\* ---------------------------------------------------------------------------

RawInput(msg) == [template |-> "message", field_list |-> "", quoted |-> "", message |-> msg]

Invocation(agent_key, input) == [agent |-> agent_key, input |-> input]

\* str(out.final_output or "").strip() or "No reply produced."
ReplyText(final_output) ==
    LET txt == Strip(final_output) IN IF txt = "" THEN NO_REPLY ELSE txt

\* "\n\n".join(f"{s['agent']}: {s['text']}" for s in segments)
JoinSegments(segs) ==
    JoinWith([i \in 1..Len(segs) |-> segs[i].agent \o ": " \o segs[i].text], "\n\n")

\* the result reporting the first segment's specialist as the final one
DispatchResult_FirstAgent(segs, chain) ==
    LET last_agent == IF segs # <<>> THEN segs[1].agent ELSE "CourseAdvisor"
    IN  [segments |-> segs,
         handoff_chain |-> chain,
         agent_key |-> DISPLAY_TO_KEY(last_agent),
         agent_name |-> last_agent,
         text |-> JoinSegments(segs)]

\* the DispatchResult built at the end of _Orchestrator.dispatch
DispatchResult(segs, chain) ==
    LET last_agent == IF segs # <<>> THEN segs[Len(segs)].agent ELSE "CourseAdvisor"
    IN  [segments |-> segs,
         handoff_chain |-> chain,
         agent_key |-> DISPLAY_TO_KEY(last_agent),
         agent_name |-> last_agent,
         text |-> JoinSegments(segs)]

\* the forced branch seeding its chain the way dispatch does
ForcedResult_TriageChain(key, final_output) ==
    LET reply == ReplyText(final_output)
    IN  [segments |-> <<[agent |-> AgentName(key), text |-> reply]>>,
         handoff_chain |-> <<HANDOFF_START, AgentName(key)>>,
         agent_key |-> key,
         agent_name |-> AgentName(key),
         text |-> reply]

\* the DispatchResult of the forced branch of dispatch_message
ForcedResult(key, final_output) ==
    LET reply == ReplyText(final_output)
    IN  [segments |-> <<[agent |-> AgentName(key), text |-> reply]>>,
         handoff_chain |-> <<"Forced", AgentName(key)>>,
         agent_key |-> key,
         agent_name |-> AgentName(key),
         text |-> reply]

\* the membership test taken over all registry keys, the router's included
IsForced_AnyAgent(force) == force \in AgentKeySet \cup {"triage"}

\* force_agent in AGENT_KEYS
IsForced(force) == force \in AgentKeySet

\* the chain extended by the plan key instead of the display name
ChainAfter_Key(chain, key) == Append(chain, key)

\* handoff_chain.append(self.agents[step].name)
ChainAfter(chain, key) == Append(chain, AgentName(key))

\* dispatch_message up to its first Runner.run_sync call
EnterDispatch(msg, force) ==
    /\ message' = msg
    /\ force_agent' = force
    /\ IF IsForced(force)
       THEN /\ invocations' = Append(invocations, Invocation(force, RawInput(msg)))
            /\ pc' = "forced"
       ELSE /\ invocations' = Append(invocations, Invocation("triage", RawInput(msg)))
            /\ pc' = "triage"
    /\ UNCHANGED <<session_items, triage_out, plan, step, segments, handoff_chain, routed>>

\* dispatch_message called by a client that holds a session
DispatchMessage(msg, sid, force) ==
    /\ pc = "idle"
    /\ caller' = "direct"
    /\ session_id' = sid
    /\ session_open' = TRUE
    /\ EnterDispatch(msg, force)
    /\ UNCHANGED <<env_key, payload>>
    /\ UNCHANGED <<norm_vars, tool_vars, view_vars, registry_vars>>

\* the loop taking the last step of the plan whatever the position
StepInvocation_Last(p, i, msg) == Invocation(p[Len(p)], StepPrompt(p[Len(p)], msg))

\* for step in plan: the call self._run(step, <prompt of step>) of the
\* i-th step of the plan
StepInvocation(p, i, msg) == Invocation(p[i], StepPrompt(p[i], msg))

\* the router returns: _build_plan finishes and dispatch starts its loop
TriageReturns(final_output) ==
    /\ pc = "triage"
    /\ session_items' = Append(session_items, "triage")
    /\ triage_out' = final_output
    /\ LET p == build_plan(message, final_output)
       IN  /\ plan' = p
           /\ IF p = <<>>
              THEN /\ routed' = DispatchResult(<<>>, <<HANDOFF_START>>)
                   /\ pc' = "returned"
                   /\ UNCHANGED <<invocations, step>>
              ELSE /\ invocations' = Append(invocations, StepInvocation(p, 1, message))
                   /\ step' = 1
                   /\ pc' = "run"
                   /\ UNCHANGED routed
    /\ segments' = <<>>
    /\ handoff_chain' = <<HANDOFF_START>>
    /\ UNCHANGED <<env_key, caller, message, session_id, force_agent, session_open, payload>>
    /\ UNCHANGED <<norm_vars, tool_vars, view_vars, registry_vars>>

\* the specialist of the current step returns: its segment is recorded and
\* the loop goes on to the next step or dispatch returns
SpecialistReturns(final_output) ==
    /\ pc = "run"
    /\ LET key == plan[step]
           segs == Append(segments, [agent |-> AgentName(key), text |-> ReplyText(final_output)])
           chain == ChainAfter(handoff_chain, key)
       IN  /\ session_items' = Append(session_items, key)
           /\ segments' = segs
           /\ handoff_chain' = chain
           /\ IF step < Len(plan)
              THEN /\ invocations' = Append(invocations, StepInvocation(plan, step + 1, message))
                   /\ step' = step + 1
                   /\ pc' = "run"
                   /\ UNCHANGED routed
              ELSE /\ routed' = DispatchResult(segs, chain)
                   /\ pc' = "returned"
                   /\ UNCHANGED <<invocations, step>>
    /\ UNCHANGED <<env_key, caller, message, session_id, force_agent, session_open,
                   triage_out, plan, payload>>
    /\ UNCHANGED <<norm_vars, tool_vars, view_vars, registry_vars>>

\* the forced specialist returns and dispatch_message returns
ForcedReturns(final_output) ==
    /\ pc = "forced"
    /\ session_items' = Append(session_items, force_agent)
    /\ routed' = ForcedResult(force_agent, final_output)
    /\ pc' = "returned"
    /\ UNCHANGED <<env_key, caller, message, session_id, force_agent, session_open,
                   invocations, triage_out, plan, step, segments, handoff_chain, payload>>
    /\ UNCHANGED <<norm_vars, tool_vars, view_vars, registry_vars>>

\* a run in progress: the router's, a plan step's or the forced specialist's
InFlight == pc \in {"triage", "run", "forced"}

\* the call made once more after the exception before it is let through
InvocationsAfterRaise_RetriedOnce(invs) == Append(invs, invs[Len(invs)])

\* the calls made when Runner.run_sync has raised: _run, dispatch and
\* dispatch_message hold no handler, so the call is the last one
InvocationsAfterRaise(invs) == invs

\* Runner.run_sync raises (network or model error): the exception leaves
\* _run, dispatch, dispatch_message and, when it is the caller,
\* run_with_agents_sdk; nothing is returned and the turn is over
InvocationFails ==
    /\ InFlight
    /\ invocations' = InvocationsAfterRaise(invocations)
    /\ pc' = "failed"
    /\ UNCHANGED <<env_key, caller, message, session_id, force_agent, session_open,
                   session_items, triage_out, plan, step, segments, handoff_chain,
                   routed, payload>>
    /\ UNCHANGED <<norm_vars, tool_vars, view_vars, registry_vars>>

\* ---------------------------------------------------------------------------
\* runner.py: run_with_agents_sdk
\* ---------------------------------------------------------------------------

\* the loop passing every segment through the scheduler normaliser
NormalizeSegment_All(s) == [s EXCEPT !.text = NormalizeScheduler(s.text)]

\* the per-segment normalisation loop
NormalizeSegment(s) ==
    IF s.agent = "SchedulingAssistant" THEN [s EXCEPT !.text = NormalizeScheduler(s.text)]
    ELSE IF s.agent = "CourseAdvisor" THEN [s EXCEPT !.text = NormalizeAdvisor(s.text)]
    ELSE s

NormalizeSegments(segs) == [i \in 1..Len(segs) |-> NormalizeSegment(segs[i])]

\* the dict run_with_agents_sdk returns for a DispatchResult
RunnerPayload(sid, r) ==
    LET segs == NormalizeSegments(r.segments)
        chain == r.handoff_chain
        handoff == IF chain # <<>> THEN <<JoinWith(chain, " -> ")>> ELSE <<>>
        legacy == IF r.agent_name = "SchedulingAssistant" THEN NormalizeScheduler(r.text)
                  ELSE IF r.agent_name = "CourseAdvisor" THEN NormalizeAdvisor(r.text)
                  ELSE r.text
    IN  [session_id |-> sid,
         agent |-> IF segs # <<>> THEN segs[Len(segs)].agent ELSE r.agent_name,
         segments |-> segs,
         response |-> IF segs # <<>> THEN JoinSegments(segs) ELSE legacy,
         handoff |-> handoff]

\* the dict run_with_agents_sdk returns when the key is missing
ConfigPayload(sid) ==
    [session_id |-> sid, agent |-> "system", segments |-> <<>>,
     response |-> CONFIG_MESSAGE, handoff |-> <<>>]

\* the test without the strip
KeyMissing_NoStrip(key) == key = ""

\* not os.getenv("OPENAI_API_KEY", "").strip()
KeyMissing(key) == Strip(key) = ""

\* run_with_agents_sdk up to its return (no key) or to the router call
RunWithAgentsSdk(msg, sid) ==
    /\ pc = "idle"
    /\ caller' = "runner"
    /\ session_id' = sid
    /\ IF KeyMissing(env_key)
       THEN /\ payload' = ConfigPayload(sid)
            /\ pc' = "done"
            /\ message' = msg
            /\ UNCHANGED <<force_agent, session_open, session_items, invocations,
                           triage_out, plan, step, segments, handoff_chain, routed>>
       ELSE /\ session_open' = TRUE
            /\ EnterDispatch(msg, NoForce)
            /\ UNCHANGED payload
    /\ UNCHANGED env_key
    /\ UNCHANGED <<norm_vars, tool_vars, view_vars, registry_vars>>

\* dispatch_message has returned to run_with_agents_sdk, which normalises the
\* segments in place (the list is the one inside the DispatchResult) and
\* returns
RunnerReturns ==
    /\ pc = "returned"
    /\ caller = "runner"
    /\ payload' = RunnerPayload(session_id, routed)
    /\ routed' = [routed EXCEPT !.segments = NormalizeSegments(routed.segments)]
    /\ segments' = IF segments = routed.segments THEN NormalizeSegments(segments) ELSE segments
    /\ pc' = "done"
    /\ UNCHANGED <<env_key, caller, message, session_id, force_agent, session_open,
                   session_items, invocations, triage_out, plan, step, handoff_chain>>
    /\ UNCHANGED <<norm_vars, tool_vars, view_vars, registry_vars>>

Next ==
    \/ \E msg \in TurnMessages, sid \in SessionIds : RunWithAgentsSdk(msg, sid)
    \/ \E msg \in TurnMessages, sid \in SessionIds, force \in ForceValues : DispatchMessage(msg, sid, force)
    \/ \E out \in TriageOutputs : TriageReturns(out)
    \/ \E out \in SpecialistOutputs : SpecialistReturns(out)
    \/ \E out \in SpecialistOutputs : ForcedReturns(out)
    \/ RunnerReturns
    \/ InvocationFails

Spec == Init /\ [][Next]_vars

\* the messages the plan builder is applied to: the word combinations and
\* the messages of whole turns
PlanMessages == Messages \cup TurnMessages

\* The plan builder as a function of the message and the router's output:
\* the turn stands at the router call of a non-forced dispatch_message, for
\* every message of PlanMessages, and the router returns.
InitPlan ==
    /\ env_key = "sk-test"
    /\ pc = "triage"
    /\ caller = "direct"
    /\ message \in PlanMessages
    /\ session_id \in SessionIds
    /\ force_agent = NoForce
    /\ session_open = TRUE
    /\ session_items = <<>>
    /\ invocations = <<Invocation("triage", RawInput(message))>>
    /\ triage_out = ""
    /\ plan = <<>>
    /\ step = 0
    /\ segments = <<>>
    /\ handoff_chain = <<>>
    /\ routed = NoRouted
    /\ payload = NoPayload
    /\ NormIdle
    /\ ToolIdle
    /\ ViewIdle
    /\ RegistryIdle

NextPlan == \E out \in TriageOutputs : TriageReturns(out)

SpecPlan == InitPlan /\ [][NextPlan]_vars

\* ---------------------------------------------------------------------------
\* runner.py: _TextNormalizer as a pair of functions on texts
\* ---------------------------------------------------------------------------

\* specialist outputs given to the normalisers: plain text, bullets, labelled
\* bullets, repeated bullets, dashes, bold, nested bold, code fences
NormTexts ==
    {"", " ", "a", "a b", " a \n",
     "- a", "-a", "  - a", "- - a", "-- a", "- - - a", "-", "- ", " - \n- ",
     "- a\n- b", "a\n- b", "a\n\n- b", "- a\n\n- - b", "a - b",
     "- **Finals**: May 1 ~ May 9", "- **a**: b", "- **a** b", "- **a**:b\n- **c**: d",
     "**a**: b", "- ****: a", "- **-**: a", "- **a**: - b", "- **a**: **b**: c",
     EN_DASH, EM_DASH, "a ~ b", "a ^ b", "~ a", "^ a", " ~ a", "~ - a", "- ~ a", "~~",
     "**a**", "**a", "a**", "****", "*****", "******", "**a** **b**", "**a**b**",
     "***a***", "****a****", "** a **", "**a\nb**", "**\n**", "a ** b ** c",
     "###", "###python\na\n###", "a\n###", "### a", "a ###", "a ### b", " ###\na",
     "##", "####", "**#**##", "#**##**", "###**a**", "**a**###", "**###**",
     "- ###", "###\n- a", "**- a**", "- **a**"}

\* the number of times a normaliser is applied to a text in a row
NormRepeats == 2

InitNorm ==
    /\ env_key = "sk-test"
    /\ TurnIdle
    /\ norm_agent \in {"scheduler", "advisor"}
    /\ \E t \in NormTexts : norm_texts = <<t>>
    /\ ToolIdle
    /\ ViewIdle
    /\ RegistryIdle

\* _TextNormalizer.scheduler applied to the latest text
ApplyScheduler ==
    /\ norm_agent = "scheduler"
    /\ Len(norm_texts) <= NormRepeats
    /\ norm_texts' = Append(norm_texts, NormalizeScheduler(norm_texts[Len(norm_texts)]))
    /\ UNCHANGED <<env_key, turn_vars, norm_agent, tool_vars, view_vars, registry_vars>>

\* _TextNormalizer.advisor applied to the latest text
ApplyAdvisor ==
    /\ norm_agent = "advisor"
    /\ Len(norm_texts) <= NormRepeats
    /\ norm_texts' = Append(norm_texts, NormalizeAdvisor(norm_texts[Len(norm_texts)]))
    /\ UNCHANGED <<env_key, turn_vars, norm_agent, tool_vars, view_vars, registry_vars>>

NextNorm == ApplyScheduler \/ ApplyAdvisor

SpecNorm == InitNorm /\ [][NextNorm]_vars

\* ---------------------------------------------------------------------------
\* tools.py: catalog data
\* ---------------------------------------------------------------------------

\* the value None of an optional argument
None == "<None>"

\* the alias table with ml filed under artificial intelligence
INTEREST_ALIASES_MlIsAi ==
    ("ml" :> "artificial intelligence") @@ ("machine learning" :> "data science")
    @@ ("datascience" :> "data science") @@ ("data-science" :> "data science")
    @@ ("data science" :> "data science")
    @@ ("ai" :> "artificial intelligence")
    @@ ("artificial-intelligence" :> "artificial intelligence")
    @@ ("artificial intelligence" :> "artificial intelligence")
    @@ ("web dev" :> "web") @@ ("web development" :> "web")
    @@ ("cloud computing" :> "cloud")
    @@ ("cybersec" :> "cybersecurity") @@ ("security" :> "cybersecurity")
    @@ ("analytics" :> "business analytics") @@ ("ba" :> "business analytics")
    @@ ("data engineering" :> "data engineering")

INTEREST_ALIASES ==
    ("ml" :> "data science") @@ ("machine learning" :> "data science")
    @@ ("datascience" :> "data science") @@ ("data-science" :> "data science")
    @@ ("data science" :> "data science")
    @@ ("ai" :> "artificial intelligence")
    @@ ("artificial-intelligence" :> "artificial intelligence")
    @@ ("artificial intelligence" :> "artificial intelligence")
    @@ ("web dev" :> "web") @@ ("web development" :> "web")
    @@ ("cloud computing" :> "cloud")
    @@ ("cybersec" :> "cybersecurity") @@ ("security" :> "cybersecurity")
    @@ ("analytics" :> "business analytics") @@ ("ba" :> "business analytics")
    @@ ("data engineering" :> "data engineering")

Course(code, title, level, credits, type, tags) ==
    [code |-> code, title |-> title, level |-> level, credits |-> credits,
     type |-> type, tags |-> tags]

\* the categories in the order of the dict
CATALOG_KEYS ==
    <<"data science", "artificial intelligence", "web", "cloud", "cybersecurity",
      "data engineering", "business analytics">>

COURSE_CATALOG ==
    ("data science" :> <<
        Course("DS101", "Intro to Data Science", "UG", 3, "core", <<"python", "basics">>),
        Course("DS201", "Statistics for ML", "UG", 3, "core", <<"stats", "probability">>),
        Course("DS230", "Data Visualization", "UG", 3, "elective", <<"viz", "tableau">>),
        Course("DS310", "Machine Learning", "UG", 4, "core", <<"ml", "supervised">>),
        Course("DS330", "Applied NLP", "UG", 3, "elective", <<"nlp">>),
        Course("DS420", "Deep Learning", "PG", 4, "core", <<"dl", "neural nets">>),
        Course("DS430", "MLOps Foundations", "PG", 3, "elective", <<"mlops", "devops">>),
        Course("DS450", "Responsible & Ethical AI", "PG", 3, "elective", <<"ethics">>) >>)
    @@ ("artificial intelligence" :> <<
        Course("AI210", "Foundations of AI", "UG", 3, "core", <<"search", "logic">>),
        Course("AI320", "Probabilistic Graphical Models", "PG", 4, "elective", <<"pgm", "bayes">>),
        Course("AI410", "Reinforcement Learning", "PG", 4, "elective", <<"rl">>),
        Course("AI430", "Generative Models", "PG", 3, "elective", <<"diffusion", "vae", "gan">>),
        Course("AI440", "AI Safety & Policy", "PG", 3, "elective", <<"safety">>) >>)
    @@ ("web" :> <<
        Course("CS120", "Web Dev Basics", "UG", 3, "core", <<"html", "css", "js">>),
        Course("CS220", "APIs & Microservices", "UG", 3, "core", <<"rest", "microservices">>),
        Course("CS330", "Full-Stack with Django", "UG", 4, "elective", <<"django", "postgres">>),
        Course("CS340", "Frontend Engineering", "UG", 3, "elective", <<"react">>),
        Course("CS360", "DevOps for Web", "PG", 3, "elective", <<"ci/cd", "docker">>) >>)
    @@ ("cloud" :> <<
        Course("CL200", "Cloud Fundamentals", "UG", 3, "core", <<"iaas", "paas", "saas">>),
        Course("CL310", "AWS Services & Architecture", "UG", 3, "elective", <<"aws">>),
        Course("CL320", "Azure Cloud Engineer", "UG", 3, "elective", <<"azure">>),
        Course("CL350", "Cloud Solution Design", "PG", 4, "core", <<"architecture">>),
        Course("CL410", "Cloud Security", "PG", 3, "elective", <<"security">>) >>)
    @@ ("cybersecurity" :> <<
        Course("CY110", "Cybersecurity Basics", "UG", 3, "core", <<"cia triad">>),
        Course("CY210", "Network Security", "UG", 3, "elective", <<"tcp/ip", "firewalls">>),
        Course("CY320", "Application Security", "PG", 3, "core", <<"owasp", "sast", "dast">>),
        Course("CY330", "Ethical Hacking", "PG", 3, "elective", <<"pentest">>),
        Course("CY410", "Cloud Security Practices", "PG", 3, "elective", <<"iam", "kms">>) >>)
    @@ ("data engineering" :> <<
        Course("DE200", "Data Warehousing", "UG", 3, "core", <<"dimensional", "etl">>),
        Course("DE310", "Big Data Systems", "UG", 3, "elective", <<"hadoop", "spark">>),
        Course("DE320", "Spark Programming", "PG", 4, "core", <<"spark", "pyspark">>),
        Course("DE330", "Data Pipelines & Orchestration", "PG", 3, "elective", <<"airflow">>),
        Course("DE410", "Streaming Systems", "PG", 3, "elective", <<"kafka", "flink">>) >>)
    @@ ("business analytics" :> <<
        Course("BA200", "Intro to Business Analytics", "UG", 3, "core", <<"analytics">>),
        Course("BA310", "SQL for Analytics", "UG", 3, "core", <<"sql">>),
        Course("BA320", "Data Visualization with Tableau", "UG", 3, "elective", <<"tableau">>),
        Course("BA325", "Information Visualization & Storytelling", "UG", 3, "elective", <<"viz", "d3">>),
        Course("BA330", "Forecasting & Time Series", "PG", 3, "elective", <<"arima", "ets">>),
        Course("BA410", "Experimentation & A/B Testing", "PG", 3, "elective", <<"causal", "abtest">>) >>)

VIZ_SYNONYMS ==
    {"visualization", "visualisation", "viz", "tableau", "chart", "charts",
     "graph", "graphs", "d3", "d3.js"}

\* ---------------------------------------------------------------------------
\* tools.py: _Catalog
\* ---------------------------------------------------------------------------

UpperOf ==
    [c \in CharsOf(LowerLetters) |->
        LET i == CHOOSE j \in 1..Len(LowerLetters) : SubSeq(LowerLetters, j, j) = c
        IN  SubSeq(UpperLetters, i, i)]

RECURSIVE UpperFrom(_, _)
UpperFrom(s, i) ==
    IF i > Len(s) THEN ""
    ELSE LET c == SubSeq(s, i, i)
         IN  (IF c \in DOMAIN UpperOf THEN UpperOf[c] ELSE c) \o UpperFrom(s, i + 1)

\* str.upper
Upper(s) == UpperFrom(s, 1)

\* re.sub(r"[^a-z0-9\s\-]", "", s.lower()), from position i on
RECURSIVE StripPunctFrom(_, _)
StripPunctFrom(s, i) ==
    IF i > Len(s) THEN ""
    ELSE LET c == SubSeq(s, i, i)
             kept == c \in CharsOf(LowerLetters) \/ IsDigit(c) \/ IsSpace(c) \/ c = "-"
         IN  (IF kept THEN c ELSE "") \o StripPunctFrom(s, i + 1)

\* _Catalog._strip_punct
strip_punct(s) == StripPunctFrom(Lower(s), 1)

\* re.sub(r"[\s\-]+", " ", raw), from position i on; inRun: the character
\* before position i was a blank or a hyphen
RECURSIVE SubSeparatorsFrom(_, _, _)
SubSeparatorsFrom(raw, i, inRun) ==
    IF i > Len(raw) THEN ""
    ELSE LET c == SubSeq(raw, i, i)
         IN  IF IsSpace(c) \/ c = "-"
             THEN (IF inRun THEN "" ELSE " ") \o SubSeparatorsFrom(raw, i + 1, TRUE)
             ELSE c \o SubSeparatorsFrom(raw, i + 1, FALSE)

\* str.replace(old, new) for a one-character old
RECURSIVE ReplaceCharFrom(_, _, _, _)
ReplaceCharFrom(s, i, old, new) ==
    IF i > Len(s) THEN ""
    ELSE (IF SubSeq(s, i, i) = old THEN new ELSE SubSeq(s, i, i))
         \o ReplaceCharFrom(s, i + 1, old, new)

ReplaceChar(s, old, new) == ReplaceCharFrom(s, 1, old, new)

\* _Catalog.normalize_interest
normalize_interest(interest) ==
    LET raw == strip_punct(Lower(Strip(interest)))
        key == SubSeparatorsFrom(raw, 1, FALSE)
        compact == ReplaceChar(key, " ", "")
        hyphened == ReplaceChar(key, " ", "-")
        cats == {k \in 1..Len(CATALOG_KEYS) : Contains(key, CATALOG_KEYS[k])}
    IN  IF key \in DOMAIN INTEREST_ALIASES THEN INTEREST_ALIASES[key]
        ELSE IF compact \in DOMAIN INTEREST_ALIASES THEN INTEREST_ALIASES[compact]
        ELSE IF hyphened \in DOMAIN INTEREST_ALIASES THEN INTEREST_ALIASES[hyphened]
        ELSE IF key \in DOMAIN COURSE_CATALOG THEN key
        ELSE IF cats # {} THEN CATALOG_KEYS[CHOOSE k \in cats : \A n \in cats : k <= n]
        ELSE IF compact \in DOMAIN INTEREST_ALIASES THEN INTEREST_ALIASES[compact]
        ELSE IF compact = "datascience" THEN "data science"
        ELSE key

\* word is one of title.split()
HasToken(title, word) ==
    \E i \in 1..(Len(title) - Len(word) + 1) :
        /\ At(title, i, word)
        /\ i = 1 \/ IsSpace(CharAt(title, i - 1))
        /\ i + Len(word) > Len(title) \/ IsSpace(CharAt(title, i + Len(word)))

\* all courses of the catalog, category by category in dict order
RECURSIVE CoursesFrom(_)
CoursesFrom(k) ==
    IF k > Len(CATALOG_KEYS) THEN <<>>
    ELSE COURSE_CATALOG[CATALOG_KEYS[k]] \o CoursesFrom(k + 1)

\* _Catalog.keyword_match_electives
keyword_match_electives(interest_key) ==
    LET t == Lower(interest_key)
        wants_viz == \E k \in {"visualization", "visualisation", "viz"} : Contains(t, k)
        VizElective(c) ==
            /\ Lower(c.type) = "elective"
            /\ \E w \in VIZ_SYNONYMS :
                  \/ HasToken(Lower(c.title), w)
                  \/ \E j \in 1..Len(c.tags) : Lower(c.tags[j]) = w
    IN  IF ~wants_viz THEN <<>> ELSE SelectSeq(CoursesFrom(1), VizElective)

Min(a, b) == IF a <= b THEN a ELSE b

Max(a, b) == IF a >= b THEN a ELSE b

\* items[:n] of Python, n of any sign
Prefix(items, n) ==
    IF n >= 0 THEN SubSeq(items, 1, Min(n, Len(items)))
    ELSE SubSeq(items, 1, Max(Len(items) + n, 0))

\* the slice without the floor of 1
slice_limit_NoFloor(items, limit) == Prefix(items, Min(limit, 10))

\* _Catalog.slice_limit
slice_limit(items, limit) == Prefix(items, Max(1, Min(limit, 10)))

\* ---------------------------------------------------------------------------
\* tools.py: recommend_courses, summarize_text
\* ---------------------------------------------------------------------------

BEGINNER_WORDS ==
    {"beginner", "beginners", "intro", "introductory", "foundation", "foundations"}

\* the items recommend_courses serialises with json.dumps, in order
recommend_courses(interest, limit, type_filter, level) ==
    LET key == normalize_interest(interest)
        known == key \in DOMAIN COURSE_CATALOG
        found == IF known THEN COURSE_CATALOG[key] ELSE <<>>
        items0 == IF found = <<>> THEN keyword_match_electives(key) ELSE found
        interest_lc == Lower(interest)
        beginner == /\ type_filter = None
                    /\ level = None
                    /\ \E w \in BEGINNER_WORDS : Contains(interest_lc, w)
        tf == IF beginner THEN "elective" ELSE type_filter
        lv == IF beginner THEN "UG" ELSE level
        OfType(c) == Lower(c.type) = Lower(tf)
        OfLevel(c) == Upper(c.level) = Upper(lv)
        items1 == IF tf # None /\ tf # "" THEN SelectSeq(items0, OfType) ELSE items0
        items2 == IF lv # None /\ lv # "" THEN SelectSeq(items1, OfLevel) ELSE items1
        items3 == IF items2 = <<>> /\ known THEN Prefix(COURSE_CATALOG[key], 4) ELSE items2
    IN  slice_limit(items3, limit)

NO_SUMMARY == "No summary produced."

\* the attribute output_text is missing from the response object
NoAttr == "<no output_text>"

\* (getattr(resp, "output_text", "") or "").strip() or "No summary produced."
SummaryOf(output_text) ==
    LET txt == IF output_text \in {NoAttr, None} THEN "" ELSE Strip(output_text)
    IN  IF txt = "" THEN NO_SUMMARY ELSE txt

Interests ==
    {"ml", "machine learning", "ML", " Machine-Learning ", "M.L.", "m l",
     "data science", "datascience", "Data-Science!", "data science for beginners",
     "intro to data science", "big data science", "machine learning foundations",
     "ai", "web dev", "security", "visualization", "data viz electives",
     "quantum", ""}

Limits == {-1, 0, 1, 3, 4, 8, 11}

TypeFilters == {None, "", "elective", "Core", "lab"}

Levels == {None, "", "UG", "pg", "PhD"}

SummaryTexts == {"", "The library is open from nine to five on weekdays."}

\* what the Responses API call of summarize_text comes back with
OutputTexts == {NoAttr, None, "", " \n", " The library is open on weekdays. "}

RecommendCalls ==
    {[tool |-> "recommend_courses", interest |-> i, limit |-> l, type_filter |-> t,
      level |-> v] : i \in Interests, l \in Limits, t \in TypeFilters, v \in Levels}

SummarizeCalls == {[tool |-> "summarize_text", text |-> t] : t \in SummaryTexts}

InitTools ==
    /\ env_key = "sk-test"
    /\ TurnIdle
    /\ NormIdle
    /\ tool_call \in RecommendCalls \cup SummarizeCalls
    /\ tool_pc = "called"
    /\ api_response = <<>>
    /\ tool_result = <<>>
    /\ ViewIdle
    /\ RegistryIdle

\* recommend_courses runs and returns
RecommendCourses ==
    /\ tool_pc = "called"
    /\ tool_call.tool = "recommend_courses"
    /\ tool_result' = recommend_courses(tool_call.interest, tool_call.limit,
                                        tool_call.type_filter, tool_call.level)
    /\ tool_pc' = "returned"
    /\ UNCHANGED <<env_key, turn_vars, norm_vars, tool_call, api_response, view_vars,
                   registry_vars>>

\* _client.responses.create returns and summarize_text returns
SummarizeReturns(output_text) ==
    /\ tool_pc = "called"
    /\ tool_call.tool = "summarize_text"
    /\ api_response' = <<"response", output_text>>
    /\ tool_result' = <<SummaryOf(output_text)>>
    /\ tool_pc' = "returned"
    /\ UNCHANGED <<env_key, turn_vars, norm_vars, tool_call, view_vars, registry_vars>>

\* _client.responses.create raises: summarize_text holds no handler and the
\* exception leaves it
SummarizeRaises ==
    /\ tool_pc = "called"
    /\ tool_call.tool = "summarize_text"
    /\ api_response' = <<"raise">>
    /\ tool_pc' = "raised"
    /\ UNCHANGED <<env_key, turn_vars, norm_vars, tool_call, tool_result, view_vars,
                   registry_vars>>

NextTools ==
    \/ RecommendCourses
    \/ \E out \in OutputTexts : SummarizeReturns(out)
    \/ SummarizeRaises

SpecTools == InitTools /\ [][NextTools]_vars

\* ---------------------------------------------------------------------------
\* views.py: chat_sdk
\* ---------------------------------------------------------------------------

\* a key of the JSON body: <<>> when the key is missing, <<v>> when it holds v
Absent == <<>>

\* (data.get(key) or "")
GetStr(field) == IF field = <<>> THEN "" ELSE field[1]

\* str(uuid.uuid4()), the n-th one made by the process
NewUuid(n) == "uuid-" \o ToString(n)

\* a fresh identifier whatever the request holds
SessionIdFor_AlwaysNew(field, n) == NewUuid(n)

\* (data.get("session_id") or "").strip() or str(uuid.uuid4())
SessionIdFor(field, n) ==
    IF Strip(GetStr(field)) # "" THEN Strip(GetStr(field)) ELSE NewUuid(n)

\* JsonResponse({"error": text}, status=status)
ErrorResponse(status, text) == [status |-> status, error |-> text]

\* the response Django gives when the view lets an exception through
ServerError == [status |-> 500]

\* the JsonResponse of chat_sdk for the dict run_with_agents_sdk returned
OkResponse(result) ==
    [status |-> 200,
     session_id |-> <<result.session_id>>,
     agent_routed_from |-> IF result.segments # <<>> THEN result.segments[1].agent
                           ELSE result.agent,
     handoff |-> result.handoff,
     agent |-> result.agent,
     segments |-> result.segments,
     response |-> result.response]

\* results dispatch_message returns to run_with_agents_sdk
ViewResults ==
    {DispatchResult(<<[agent |-> "CourseAdvisor", text |-> "Start with **DS101**."]>>,
                    <<HANDOFF_START, "CourseAdvisor">>),
     DispatchResult(<<[agent |-> "UniversityPoet", text |-> "Quiet stacks at dusk"],
                      [agent |-> "SchedulingAssistant", text |-> "- **Finals**: Dec 10 ~ Dec 19"]>>,
                    <<HANDOFF_START, "UniversityPoet", "SchedulingAssistant">>)}

\* the requests a client can send: a GET, a POST whose body is no JSON or no
\* JSON object, and POSTs of JSON objects; the session_id is missing, blank,
\* the client's own, or the one the previous response carried
ViewMessages == {Absent, <<"  ">>, <<" Hello ">>}

ViewSessionIds ==
    {Absent, <<"">>, <<"  ">>, <<"s1">>, <<" s1 ">>}
    \cup (IF response.status = 200 THEN {response.session_id} ELSE {})

ViewRequests ==
    {[method |-> "GET", body |-> "none", message |-> Absent, session_id |-> Absent],
     [method |-> "POST", body |-> "invalid", message |-> Absent, session_id |-> Absent],
     [method |-> "POST", body |-> "list", message |-> Absent, session_id |-> Absent]}
    \cup {[method |-> "POST", body |-> "dict", message |-> m, session_id |-> s] :
             m \in ViewMessages, s \in ViewSessionIds}

\* Largest number of chat requests a client sends.
MaxRequests == 2

\* chat_sdk handles one request; r is what dispatch_message returns when it
\* is called and returns, raises tells that it raises instead
ChatSdk(req, r, raises) ==
    /\ requests_made < MaxRequests
    /\ request' = req
    /\ requests_made' = requests_made + 1
    /\ LET msg == Strip(GetStr(req.message))
           sid == SessionIdFor(req.session_id, uuids_made + 1)
       IN  IF req.method # "POST"
           THEN /\ response' = ErrorResponse(405, "Only POST allowed")
                /\ UNCHANGED <<uuids_made, opened>>
           ELSE IF req.body = "invalid"
           THEN /\ response' = ErrorResponse(400, "Invalid JSON")
                /\ UNCHANGED <<uuids_made, opened>>
           ELSE IF req.body # "dict"
           THEN /\ response' = ErrorResponse(400, "Invalid JSON object")
                /\ UNCHANGED <<uuids_made, opened>>
           ELSE IF msg = ""
           THEN /\ response' = ErrorResponse(400, "Field 'message' is required")
                /\ UNCHANGED <<uuids_made, opened>>
           ELSE /\ uuids_made' = IF sid = NewUuid(uuids_made + 1)
                                 THEN uuids_made + 1 ELSE uuids_made
                /\ IF KeyMissing(env_key)
                   THEN /\ response' = OkResponse(ConfigPayload(sid))
                        /\ UNCHANGED opened
                   ELSE /\ opened' = opened \cup {sid}
                        /\ response' = IF raises THEN ServerError
                                       ELSE OkResponse(RunnerPayload(sid, r))
    /\ UNCHANGED <<env_key, turn_vars, norm_vars, tool_vars, registry_vars>>

InitView ==
    /\ env_key \in ApiKeys
    /\ TurnIdle
    /\ NormIdle
    /\ ToolIdle
    /\ ViewIdle
    /\ RegistryIdle

NextView == \E req \in ViewRequests, r \in ViewResults, raises \in BOOLEAN : ChatSdk(req, r, raises)

SpecView == InitView /\ [][NextView]_vars

\* ---------------------------------------------------------------------------
\* agents.py: get_agents called by the threads of the server
\* ---------------------------------------------------------------------------

\* Number of request threads.
NumThreads == 2

\* Largest number of get_agents calls of one thread.
MaxCalls == 2

Threads == 1..NumThreads

InitRegistry ==
    /\ env_key = "sk-test"
    /\ TurnIdle
    /\ NormIdle
    /\ ToolIdle
    /\ ViewIdle
    /\ AGENTS_CACHE = 0
    /\ builds = 0
    /\ thread_pc = [t \in Threads |-> "idle"]
    /\ thread_built = [t \in Threads |-> 0]
    /\ thread_agents = [t \in Threads |-> <<>>]
    /\ thread_calls = [t \in Threads |-> 0]

\* a thread enters get_agents (from _Orchestrator.__init__ or the forced
\* branch of dispatch_message)
GetAgentsCall(t) ==
    /\ thread_pc[t] = "idle"
    /\ thread_calls[t] < MaxCalls
    /\ thread_calls' = [thread_calls EXCEPT ![t] = @ + 1]
    /\ thread_pc' = [thread_pc EXCEPT ![t] = "test"]
    /\ UNCHANGED <<env_key, turn_vars, norm_vars, tool_vars, view_vars,
                   AGENTS_CACHE, builds, thread_built, thread_agents>>

\* if _AGENTS_CACHE is None
GetAgentsTest(t) ==
    /\ thread_pc[t] = "test"
    /\ thread_pc' = [thread_pc EXCEPT ![t] = IF AGENTS_CACHE = 0 THEN "build" ELSE "load"]
    /\ UNCHANGED <<env_key, turn_vars, norm_vars, tool_vars, view_vars,
                   AGENTS_CACHE, builds, thread_built, thread_agents, thread_calls>>

\* build_agents() returns a new registry
GetAgentsBuild(t) ==
    /\ thread_pc[t] = "build"
    /\ builds' = builds + 1
    /\ thread_built' = [thread_built EXCEPT ![t] = builds + 1]
    /\ thread_pc' = [thread_pc EXCEPT ![t] = "store"]
    /\ UNCHANGED <<env_key, turn_vars, norm_vars, tool_vars, view_vars,
                   AGENTS_CACHE, thread_agents, thread_calls>>

\* _AGENTS_CACHE = <the registry built>
GetAgentsStore(t) ==
    /\ thread_pc[t] = "store"
    /\ AGENTS_CACHE' = thread_built[t]
    /\ thread_built' = [thread_built EXCEPT ![t] = 0]
    /\ thread_pc' = [thread_pc EXCEPT ![t] = "load"]
    /\ UNCHANGED <<env_key, turn_vars, norm_vars, tool_vars, view_vars,
                   builds, thread_agents, thread_calls>>

\* return _AGENTS_CACHE
GetAgentsReturn(t) ==
    /\ thread_pc[t] = "load"
    /\ thread_agents' = [thread_agents EXCEPT ![t] = Append(@, AGENTS_CACHE)]
    /\ thread_pc' = [thread_pc EXCEPT ![t] = "idle"]
    /\ UNCHANGED <<env_key, turn_vars, norm_vars, tool_vars, view_vars,
                   AGENTS_CACHE, builds, thread_built, thread_calls>>

NextRegistry ==
    \/ \E t \in Threads : GetAgentsCall(t)
    \/ \E t \in Threads : GetAgentsTest(t)
    \/ \E t \in Threads : GetAgentsBuild(t)
    \/ \E t \in Threads : GetAgentsStore(t)
    \/ \E t \in Threads : GetAgentsReturn(t)

SpecRegistry == InitRegistry /\ [][NextRegistry]_vars

\* ---------------------------------------------------------------------------
\* Properties of the plan builder (under SpecPlan)
\* ---------------------------------------------------------------------------

\* the router has returned and the plan is built
PlanBuilt == pc \in {"run", "returned", "done"}

InPlan(key) == \E i \in 1..Len(plan) : plan[i] = key

PoemCampus(msg) == has_poem_intent(msg) /\ poem_is_campus(msg)

ExplicitScheduleAsk(msg) == EXPLICIT_TIME_ASK(msg) \/ FIELD_QUESTION(msg)

NoIntent(msg) ==
    ~has_course_intent(msg) /\ ~has_schedule_intent(msg) /\ ~has_poem_intent(msg)

\* C1: for every message and every router output, the built plan is
\* non-empty, consists of specialist keys, holds each key at most once (so at
\* most three keys), and lists them in the order poet, scheduler, advisor.
Thm_C1 ==
    PlanBuilt =>
        /\ Len(plan) >= 1
        /\ Len(plan) <= 3
        /\ \A i \in 1..Len(plan) : plan[i] \in {"poet", "scheduler", "advisor"}
        /\ \A i, j \in 1..Len(plan) : i < j => AGENT_ORDER(plan[i]) < AGENT_ORDER(plan[j])

\* C1 witness: the keys were appended out of priority order (the router's
\* scheduler first, then poet) and the plan lists poet first.
Wit_C1 ==
    /\ pc = "run"
    /\ AppendedPlan(message, TriageLabel(triage_out)) = <<"scheduler", "poet">>
    /\ plan = <<"poet", "scheduler">>

\* C2 as claimed: for a campus poem request without explicit schedule ask,
\* whatever the router returns, the plan starts with poet and holds no
\* scheduler.
Orig_C2 ==
    (PlanBuilt /\ PoemCampus(message) /\ ~ExplicitScheduleAsk(message)) =>
        plan[1] = "poet" /\ ~InPlan("scheduler")

\* C2 amended: for a campus poem request without explicit schedule ask, the
\* plan starts with poet, and it holds the scheduler exactly when the
\* router's label is scheduler.
Thm_C2 ==
    (PlanBuilt /\ PoemCampus(message) /\ ~ExplicitScheduleAsk(message)) =>
        /\ plan[1] = "poet"
        /\ InPlan("scheduler") <=> (TriageLabel(triage_out) = "scheduler")

\* C2 witness: a campus poem request with schedule intent and no explicit
\* ask, router label not scheduler: the plan is the poet alone.
Wit_C2 ==
    /\ pc = "run"
    /\ PoemCampus(message)
    /\ has_schedule_intent(message)
    /\ ~ExplicitScheduleAsk(message)
    /\ TriageLabel(triage_out) = "none"
    /\ plan = <<"poet">>

\* C3 as claimed: when no intent detector fires the plan is the advisor
\* alone, whatever the router returns.
Orig_C3 ==
    (PlanBuilt /\ NoIntent(message)) => plan = <<"advisor">>

\* C3 amended: when no intent detector fires, the plan is the router's
\* label alone when that label is poet or scheduler, and the advisor alone
\* for the label advisor and for every unrecognized label.
Thm_C3 ==
    (PlanBuilt /\ NoIntent(message)) =>
        plan = IF TriageLabel(triage_out) \in {"poet", "scheduler"}
               THEN <<TriageLabel(triage_out)>>
               ELSE <<"advisor">>

\* C3 witness: no intent, an unrecognized router label, and the plan is the
\* advisor alone by the fallback.
Wit_C3 ==
    /\ pc = "run"
    /\ NoIntent(message)
    /\ message # ""
    /\ TriageLabel(triage_out) = "none"
    /\ plan = <<"advisor">>

\* what the plan builder reads off a router output: the output trimmed and
\* lowercased when that is a specialist key, and otherwise no label
RouterLabel(out) ==
    LET l == Lower(Strip(out))
    IN  IF l \in {"poet", "scheduler", "advisor"} THEN l ELSE "unrecognized"

\* C17 as claimed: the plan built for a message is the same whatever the
\* router returns.
Orig_C17 ==
    PlanBuilt => \A out \in TriageOutputs : build_plan(message, out) = plan

\* C17 amended: the plan built for a message is the same for all router
\* outputs that read as the same label; the session has no part in it but
\* through the router's output.
Thm_C17 ==
    PlanBuilt =>
        \A out \in TriageOutputs :
            RouterLabel(out) = RouterLabel(triage_out) => build_plan(message, out) = plan

\* C17 witness: the router answered " Advisor" with a line break; the plan
\* is the one built for the output "advisor" and differs from the one built
\* for an unrecognized output.
Wit_C17 ==
    /\ pc = "run"
    /\ triage_out = " Advisor\n"
    /\ plan = build_plan(message, "advisor")
    /\ plan # build_plan(message, "none")
    /\ plan = <<"scheduler", "advisor">>

\* the message has schedule intent and holds an explicit schedule ask
ScheduleAsked(msg) == has_schedule_intent(msg) /\ ExplicitScheduleAsk(msg)

\* C23: the scheduler step appends the scheduler exactly when the message
\* has schedule intent and an explicit schedule ask, so the plan holds the
\* scheduler exactly when that is so or the router's label is scheduler;
\* a campus poem request with schedule intent and an explicit ask gets the
\* poet first and the scheduler second, and schedule intent without an
\* explicit ask brings no scheduler, poem or not.
Thm_C23 ==
    PlanBuilt =>
        /\ InPlan("scheduler") <=>
              (TriageLabel(triage_out) = "scheduler" \/ ScheduleAsked(message))
        /\ (PoemCampus(message) /\ ScheduleAsked(message)) =>
              (Len(plan) >= 2 /\ plan[1] = "poet" /\ plan[2] = "scheduler")

\* C23 witness: a campus poem request with schedule intent and an explicit
\* ask, the router naming no specialist: the plan is poet, then scheduler.
Wit_C23 ==
    /\ pc = "run"
    /\ PoemCampus(message)
    /\ ScheduleAsked(message)
    /\ TriageLabel(triage_out) = "none"
    /\ plan = <<"poet", "scheduler">>

\* steps 1 to 3 of the plan builder queued no key
NothingQueued(msg, label) ==
    /\ label \notin {"poet", "scheduler", "advisor"}
    /\ ~PoemCampus(msg)
    /\ ~ScheduleAsked(msg)

\* the advisor step's own condition on the message
AdvisingWanted(msg) ==
    has_course_intent(msg) /\ (~has_schedule_intent(msg) \/ has_advising_action(msg))

\* C24: the advisor is in the plan exactly when the router's label is
\* advisor, or the message has course intent and either no schedule intent
\* or an explicit advising action, or steps 1 to 3 queued no key.
Thm_C24 ==
    PlanBuilt =>
        (InPlan("advisor") <=>
            \/ TriageLabel(triage_out) = "advisor"
            \/ AdvisingWanted(message)
            \/ NothingQueued(message, TriageLabel(triage_out)))

\* C24 witness: course intent, schedule intent and an explicit schedule ask
\* without advising action, the router naming no specialist: the plan is
\* the scheduler alone.
Wit_C24 ==
    /\ pc = "run"
    /\ has_course_intent(message)
    /\ ScheduleAsked(message)
    /\ ~has_advising_action(message)
    /\ TriageLabel(triage_out) = "none"
    /\ plan = <<"scheduler">>

\* ---------------------------------------------------------------------------
\* Properties of whole turns (under Spec)
\* ---------------------------------------------------------------------------

\* dispatch_message has returned its DispatchResult
Returned == pc \in {"returned", "done"} /\ session_open

NonForced == force_agent \notin {"poet", "scheduler", "advisor"}

\* the message holds YYYY-MM-DD as a token of its own
HasIsoDate(msg) ==
    \E i \in 1..Len(msg) :
        IsoDateAt(msg, i) /\ WordBoundary(msg, i) /\ WordBoundary(msg, i + 10)

\* the message holds the word today or tomorrow, in any letter case
HasDayWord(msg) == SearchWords(Lower(msg), {"today", "tomorrow"})

\* the message holds a token of 2 to 4 letters followed by 3 digits; the
\* letters are capitals (upperOnly) or of any case
HasCourseCodeToken(msg, upperOnly) ==
    \E i \in 1..Len(msg) : \E n \in 2..4 :
        /\ i + n + 2 <= Len(msg)
        /\ \A k \in 0..(n - 1) :
              IF upperOnly THEN IsUpper(CharAt(msg, i + k)) ELSE IsLetter(CharAt(msg, i + k))
        /\ \A k \in n..(n + 2) : IsDigit(CharAt(msg, i + k))
        /\ WordBoundary(msg, i)
        /\ WordBoundary(msg, i + n + 3)

SchedulingSegments(segs) == {i \in 1..Len(segs) : segs[i].agent = "SchedulingAssistant"}

\* C4 as claimed: a message with schedule intent that holds an ISO date,
\* today or tomorrow, or a course-code token in any letter case, gets a
\* scheduling segment whose text is exactly the refusal sentence.
Orig_C4 ==
    (/\ pc = "returned"
     /\ NonForced
     /\ has_schedule_intent(message)
     /\ HasIsoDate(message) \/ HasDayWord(message) \/ HasCourseCodeToken(message, FALSE))
    => \E i \in SchedulingSegments(routed.segments) :
           routed.segments[i].text = REFUSAL_SENTENCE

\* C4 amended: for a message with schedule intent that holds an ISO date,
\* today or tomorrow, or a course-code token in capital letters, every
\* invocation of the scheduler in a non-forced turn is given the prompt that
\* tells it to reply with exactly the refusal sentence.
Thm_C4 ==
    (/\ NonForced
     /\ has_schedule_intent(message)
     /\ HasIsoDate(message) \/ HasDayWord(message) \/ HasCourseCodeToken(message, TRUE))
    => \A i \in 1..Len(invocations) :
           invocations[i].agent = "scheduler" =>
               /\ invocations[i].input.template = "scheduler_specific_refusal"
               /\ invocations[i].input.quoted = "Details for that specific schedule are not available in the current data."

\* C4 witness: a schedule question naming a course code in capitals; the
\* scheduler was given the refusal prompt and its segment is the sentence.
Wit_C4 ==
    /\ pc = "returned"
    /\ NonForced
    /\ has_schedule_intent(message)
    /\ HasCourseCodeToken(message, TRUE)
    /\ ~HasDayWord(message)
    /\ \E i \in 1..Len(invocations) :
          /\ invocations[i].agent = "scheduler"
          /\ invocations[i].input.template = "scheduler_specific_refusal"
    /\ \E i \in SchedulingSegments(routed.segments) :
          routed.segments[i].text = REFUSAL_SENTENCE

\* C5: a turn forced to poet, scheduler or advisor never invokes the router
\* and builds no plan; its one invocation is of the forced specialist on the
\* raw message; its result has one segment, under that specialist's display
\* name, and the chain "Forced", display name.
Thm_C5 ==
    (pc # "idle" /\ force_agent \in {"poet", "scheduler", "advisor"}) =>
        /\ Len(invocations) = 1
        /\ invocations[1].agent = force_agent
        /\ invocations[1].input.template = "message"
        /\ invocations[1].input.message = message
        /\ plan = <<>>
        /\ \A i \in 1..Len(session_items) : session_items[i] # "triage"
        /\ pc = "returned" =>
              /\ Len(routed.segments) = 1
              /\ routed.segments[1].agent = AgentName(force_agent)
              /\ routed.handoff_chain = <<"Forced", AgentName(force_agent)>>
              /\ session_items = <<force_agent>>

\* C5 witness: a turn forced to the poet has returned.
Wit_C5 ==
    /\ pc = "returned"
    /\ force_agent = "poet"
    /\ routed.handoff_chain = <<"Forced", "UniversityPoet">>
    /\ routed.segments[1].agent = "UniversityPoet"

\* C6: with a force_agent that is no specialist key (None, the router's key)
\* the turn is a non-forced one: its first invocation is the router on the
\* raw message, the plan is the one built from the message and the router's
\* output, each later invocation is of a plan step, and the chain starts
\* with the router's name.
Thm_C6 ==
    (pc # "idle" /\ session_open /\ force_agent \notin {"poet", "scheduler", "advisor"}) =>
        /\ invocations[1].agent = "triage"
        /\ invocations[1].input.template = "message"
        /\ invocations[1].input.message = message
        /\ session_items # <<>> =>
              /\ plan = build_plan(message, triage_out)
              /\ \A i \in 2..Len(invocations) : invocations[i].agent = plan[i - 1]
        /\ pc \in {"returned", "done"} =>
              /\ routed.handoff_chain[1] = "Triage"
              /\ Len(routed.segments) = Len(plan)

\* C6 witness: dispatch_message was called with the router's key as
\* force_agent and has returned a result routed by the router.
Wit_C6 ==
    /\ pc = "returned"
    /\ force_agent = "triage"
    /\ routed.handoff_chain = <<"Triage", "UniversityPoet">>

\* chain elements joined by " -> ", written out for chains of up to four
ArrowJoined(c) ==
    CASE Len(c) = 1 -> c[1]
      [] Len(c) = 2 -> c[1] \o " -> " \o c[2]
      [] Len(c) = 3 -> c[1] \o " -> " \o c[2] \o " -> " \o c[3]
      [] Len(c) = 4 -> c[1] \o " -> " \o c[2] \o " -> " \o c[3] \o " -> " \o c[4]

\* C7: in a completed non-forced turn the chain is "Triage" followed by the
\* display names of the invoked specialists in invocation order, one per
\* segment, and the handoff string of run_with_agents_sdk is the chain
\* joined by " -> ".
Thm_C7 ==
    (Returned /\ NonForced) =>
        /\ routed.handoff_chain[1] = "Triage"
        /\ Len(routed.handoff_chain) = Len(routed.segments) + 1
        /\ Len(invocations) = Len(routed.segments) + 1
        /\ \A i \in 1..Len(routed.segments) :
              /\ routed.handoff_chain[i + 1] = routed.segments[i].agent
              /\ routed.handoff_chain[i + 1] = AgentName(invocations[i + 1].agent)
        /\ pc = "done" => payload.handoff = <<ArrowJoined(routed.handoff_chain)>>

\* C7 witness: a turn through run_with_agents_sdk that ran the poet and then
\* the scheduler.
Wit_C7 ==
    /\ pc = "done"
    /\ Len(invocations) = 3
    /\ payload.handoff = <<"Triage -> UniversityPoet -> SchedulingAssistant">>

\* C8: no segment of a returned result has an empty text, neither in the
\* DispatchResult of dispatch_message nor, after normalisation, in the
\* payload of run_with_agents_sdk.
Orig_C8 ==
    /\ pc = "returned" => \A i \in 1..Len(routed.segments) : routed.segments[i].text # ""
    /\ pc = "done" => \A i \in 1..Len(payload.segments) : payload.segments[i].text # ""

\* "<display name>: <text>" entries separated by a blank line, written out
\* for up to three segments
PrefixedEntry(seg) == seg.agent \o ": " \o seg.text

PrefixedJoined(segs) ==
    CASE Len(segs) = 0 -> ""
      [] Len(segs) = 1 -> PrefixedEntry(segs[1])
      [] Len(segs) = 2 -> PrefixedEntry(segs[1]) \o "\n\n" \o PrefixedEntry(segs[2])
      [] Len(segs) = 3 -> PrefixedEntry(segs[1]) \o "\n\n" \o PrefixedEntry(segs[2])
                          \o "\n\n" \o PrefixedEntry(segs[3])

\* C9: the combined text of every DispatchResult returned by
\* dispatch_message, forced or not, is its segments joined as
\* "<display name>: <text>" entries separated by a blank line.
Orig_C9 ==
    pc = "returned" => routed.text = PrefixedJoined(routed.segments)

\* the key is absent (reads as "") or holds whitespace only
BlankKey(key) == \A i \in 1..Len(key) : CharAt(key, i) \in {" ", "\t", "\n"}

\* C10: with OPENAI_API_KEY absent or blank, run_with_agents_sdk returns at
\* once the configuration message with no segments and no handoff; nothing
\* is invoked and no session is opened.
Thm_C10 ==
    (caller = "runner" /\ BlankKey(env_key)) =>
        /\ pc = "done"
        /\ payload = [session_id |-> session_id,
                      agent |-> "system",
                      segments |-> <<>>,
                      response |-> "Configuration issue: set OPENAI_API_KEY in your environment and restart the server.",
                      handoff |-> <<>>]
        /\ invocations = <<>>
        /\ session_items = <<>>
        /\ ~session_open

\* C10 witness: run_with_agents_sdk has returned under a key of blanks.
Wit_C10 ==
    /\ pc = "done"
    /\ caller = "runner"
    /\ env_key = "  "
    /\ payload.agent = "system"

\* a non-forced turn that has entered dispatch_message
NonForcedTurn == pc # "idle" /\ session_open /\ NonForced

\* invocations that have not returned: made and without a session write
Unreturned == Len(invocations) - Len(session_items)

\* C11: in a non-forced turn the invocations are strictly sequential: the
\* first is the router's, the i-th after it is the i-th plan step's and is
\* made only once the router and all earlier steps have returned; every
\* invocation but the last has returned, so at most one is in progress, and
\* the session writes are the router's followed by the plan's steps in order.
Thm_C11 ==
    NonForcedTurn =>
        /\ Unreturned = IF InFlight \/ pc = "failed" THEN 1 ELSE 0
        /\ invocations[1].agent = "triage"
        /\ Len(invocations) <= Len(plan) + 1
        /\ \A i \in 2..Len(invocations) :
              /\ session_items # <<>>
              /\ invocations[i].agent = plan[i - 1]
        /\ \A i \in 1..Len(session_items) :
              /\ session_items[i] = invocations[i].agent
              /\ session_items[i] = IF i = 1 THEN "triage" ELSE plan[i - 1]

\* C11 witness: the router and the poet have returned, in that order, and
\* the scheduler, second in the plan, is the one invocation in progress.
Wit_C11 ==
    /\ pc = "run"
    /\ NonForced
    /\ plan = <<"poet", "scheduler">>
    /\ session_items = <<"triage", "poet">>
    /\ Len(invocations) = 3
    /\ invocations[3].agent = "scheduler"

\* C12, state part: when an invocation has failed, it is the last call made
\* and the only one without a return (no retry, no later plan step), no
\* DispatchResult and no payload exist, and the session holds the writes of
\* the runs that returned before it.
FailedState ==
    pc = "failed" =>
        /\ Unreturned = 1
        /\ routed = NoRouted
        /\ payload = NoPayload
        /\ \A i \in 1..Len(session_items) : session_items[i] = invocations[i].agent
        /\ NonForced => Len(session_items) = step

\* C12, step part: the step at which an invocation fails makes no call and
\* removes no session write, and nothing happens after it.
FailedStep ==
    /\ (InFlight /\ pc' = "failed") =>
          invocations' = invocations /\ session_items' = session_items
    /\ pc = "failed" => UNCHANGED turn_vars

\* C12: a failed router or specialist invocation propagates out of
\* dispatch_message: no retry, no later specialist, no result for the turn,
\* and the session writes of the runs that returned remain.
Thm_C12 == []FailedState /\ [][FailedStep]_vars

\* C12 witness: the poet returned and the scheduler, second in the plan,
\* failed: the session keeps the router's and the poet's writes.
Wit_C12 ==
    /\ pc = "failed"
    /\ plan = <<"poet", "scheduler">>
    /\ step = 2
    /\ session_items = <<"triage", "poet">>
    /\ Len(invocations) = 3
    /\ routed = NoRouted

\* the DispatchResult handed to run_with_agents_sdk keeps its segments
SegmentsKept ==
    pc = "returned" =>
        /\ Len(routed'.segments) = Len(routed.segments)
        /\ \A i \in 1..Len(routed.segments) :
              /\ routed'.segments[i].agent = routed.segments[i].agent
              /\ routed'.segments[i].text = routed.segments[i].text

\* the combined text of the DispatchResult of a routed turn is the join of
\* its segments, also once run_with_agents_sdk has returned
TextIsJoin ==
    (pc \in {"returned", "done"} /\ session_open /\ NonForced) =>
        routed.text = PrefixedJoined(routed.segments)

\* C20: once dispatch_message has returned, no later step of the turn
\* changes the agent or the text of a segment of the DispatchResult, and
\* its combined text stays the join of its segments.
Orig_C20 == [][SegmentsKept]_vars /\ []TextIsJoin

\* run_with_agents_sdk returns in this step
RunnerReturnStep == pc = "returned" /\ pc' = "done"

\* C21, as a step: when run_with_agents_sdk returns, its segments are those
\* dispatch_message returned, one for one and under the same names; the
\* text of a UniversityPoet segment is the recorded text, the text of a
\* SchedulingAssistant segment is the recorded text passed through the
\* scheduler normaliser, and the text of a CourseAdvisor segment is the
\* recorded text passed through the advisor normaliser.
NormalizedByAgent ==
    RunnerReturnStep =>
        /\ Len(payload'.segments) = Len(routed.segments)
        /\ \A i \in 1..Len(routed.segments) :
              /\ payload'.segments[i].agent = routed.segments[i].agent
              /\ routed.segments[i].agent \in
                    {"UniversityPoet", "SchedulingAssistant", "CourseAdvisor"}
              /\ routed.segments[i].agent = "UniversityPoet" =>
                    payload'.segments[i].text = routed.segments[i].text
              /\ routed.segments[i].agent = "SchedulingAssistant" =>
                    payload'.segments[i].text = NormalizeScheduler(routed.segments[i].text)
              /\ routed.segments[i].agent = "CourseAdvisor" =>
                    payload'.segments[i].text = NormalizeAdvisor(routed.segments[i].text)

\* C21: response normalisation never alters the poet's output; the
\* scheduler normaliser is applied to SchedulingAssistant segments only and
\* the advisor normaliser to CourseAdvisor segments only.
Thm_C21 == [][NormalizedByAgent]_vars

\* C21 witness: a turn has returned in which the poet and the scheduler gave
\* the same bulleted line; the poet's segment holds it as given, the
\* scheduler's holds it normalised.
Wit_C21 ==
    /\ pc = "done"
    /\ Len(payload.segments) = 2
    /\ payload.segments[1] = [agent |-> "UniversityPoet", text |-> "- **Finals**: May 1 ~ May 9"]
    /\ payload.segments[2] = [agent |-> "SchedulingAssistant", text |-> "Finals: May 1 - May 9"]

\* a completed non-forced turn: the router was invoked once and then each
\* plan step once, in plan order, four invocations at most; the result has
\* one segment per plan step under the step's display name, is never
\* without segments, and names the last plan step as the final specialist
CompletedByPlan ==
    (Returned /\ NonForced) =>
        /\ Len(plan) \in 1..3
        /\ Len(invocations) = Len(plan) + 1
        /\ Len(invocations) <= 4
        /\ invocations[1].agent = "triage"
        /\ \A i \in 1..Len(plan) : invocations[i + 1].agent = plan[i]
        /\ \A k \in {"poet", "scheduler", "advisor"} :
              Cardinality({i \in 1..Len(invocations) : invocations[i].agent = k})
                 = IF InPlan(k) THEN 1 ELSE 0
        /\ routed.segments # <<>>
        /\ Len(routed.segments) = Len(plan)
        /\ \A i \in 1..Len(plan) : routed.segments[i].agent = AgentName(plan[i])
        /\ routed.agent_key = plan[Len(plan)]
        /\ routed.agent_name = AgentName(plan[Len(plan)])

\* a step of a non-forced turn in which the invocation in progress returns:
\* one more invocation has returned, and dispatch returns exactly when the
\* router and every plan step have
ReturnStep ==
    (NonForcedTurn /\ InFlight /\ pc' # "failed") =>
        /\ Len(session_items') = Len(session_items) + 1
        /\ Len(session_items') <= Len(plan') + 1
        /\ (pc' = "returned") <=> (Len(session_items') = Len(plan') + 1)
        /\ (pc' = "run") <=> (Len(session_items') < Len(plan') + 1)

\* C26: a non-forced turn in which every invocation returns ends after one
\* router invocation and one invocation of each plan step and of no other
\* specialist, at most four in all, with one segment per plan step in plan
\* order and the last plan step as final specialist; the segment list is
\* never empty, so the default to the advisor is never taken.
Thm_C26 == []CompletedByPlan /\ [][ReturnStep]_vars

\* C26 witness: a turn over a plan of all three specialists has returned
\* after four invocations, reporting the advisor as final specialist.
Wit_C26 ==
    /\ pc = "returned"
    /\ NonForced
    /\ plan = <<"poet", "scheduler", "advisor">>
    /\ Len(invocations) = 4
    /\ Len(routed.segments) = 3
    /\ routed.agent_key = "advisor"

\* two messages differ at most in letter case and in the lengths of their
\* whitespace runs
SameUpToCaseAndSpacing(a, b) == Norm(a) = Norm(b)

\* C25 as stated: a message that differs from the turn's message only in
\* letter case or whitespace runs gets the same plan from the same router
\* output and the same scheduler prompt variant.
Orig_C25 ==
    \A other \in TurnMessages :
        (NonForced /\ SameUpToCaseAndSpacing(other, message)) =>
            /\ plan # <<>> => build_plan(other, triage_out) = plan
            /\ \A i \in 1..Len(invocations) :
                  invocations[i].agent = "scheduler" =>
                      scheduler_prompt(other).template = invocations[i].input.template

\* the canonical field names in the order of the pattern list
CANONICAL_FIELDS ==
    <<"midterms_window", "finals_window", "add_drop_deadline", "term_start",
      "graduation_ceremony", "class_times">>

\* the canonical names of S in pattern-list order, each once
CanonicalList(S) ==
    LET Chosen(f) == f \in S IN SelectSeq(CANONICAL_FIELDS, Chosen)

CanonicalFieldLists ==
    {JoinWith(CanonicalList(S), ", ") :
        S \in SUBSET {CANONICAL_FIELDS[i] : i \in 1..Len(CANONICAL_FIELDS)}}

\* C22 as stated: the fields named in a scheduler prompt, which are the
\* list schedule-field extraction returned for the message, are canonical
\* field names in pattern-list order with each name at most once.
Orig_C22 ==
    \A i \in 1..Len(invocations) :
        (invocations[i].agent = "scheduler"
           /\ invocations[i].input.template = "scheduler_fields")
        => invocations[i].input.field_list \in CanonicalFieldLists

\* ---------------------------------------------------------------------------
\* Properties of the normalisers (under SpecNorm)
\* ---------------------------------------------------------------------------

\* C13: both normalisers are idempotent: a second application of the
\* scheduler normaliser, or of the advisor normaliser, to its own result
\* returns that result unchanged.
Orig_C13 ==
    Len(norm_texts) = 3 => norm_texts[3] = norm_texts[2]

\* ---------------------------------------------------------------------------
\* Properties of the tools (under SpecTools)
\* ---------------------------------------------------------------------------

\* recommend_courses has returned
Recommended == tool_call.tool = "recommend_courses" /\ tool_pc = "returned"

CodesOf(items) == [k \in 1..Len(items) |-> items[k].code]

\* the course is one of the category data science
InDataScience(c) ==
    \E k \in 1..Len(COURSE_CATALOG["data science"]) : COURSE_CATALOG["data science"][k] = c

\* C14: for every limit, type filter and level filter, recommend_courses
\* returns for the interest ml and for the interest machine learning the
\* same ordered list, whose courses all belong to the category data science.
Thm_C14 ==
    (Recommended /\ tool_call.interest \in {"ml", "machine learning"}) =>
        /\ tool_result = recommend_courses("ml", tool_call.limit,
                                           tool_call.type_filter, tool_call.level)
        /\ tool_result = recommend_courses("machine learning", tool_call.limit,
                                           tool_call.type_filter, tool_call.level)
        /\ tool_result # <<>>
        /\ \A k \in 1..Len(tool_result) : InDataScience(tool_result[k])

\* C14 witness: the call for ml with the filters elective and UG and the
\* limit 3 returned the two undergraduate electives of data science.
Wit_C14 ==
    /\ Recommended
    /\ tool_call.interest = "ml"
    /\ tool_call.limit = 3
    /\ tool_call.type_filter = "elective"
    /\ tool_call.level = "UG"
    /\ CodesOf(tool_result) = <<"DS230", "DS330">>

BeginnerWording(interest) == \E w \in BEGINNER_WORDS : Contains(Lower(interest), w)

\* C15: for every interest that normalises to data science, a call without
\* type filter and without level filter returns, for every limit, a
\* non-empty list holding at least one of DS101, DS201, DS230, DS310; with
\* limit 4 and no beginner wording the list is exactly these four in catalog
\* order.
Thm_C15 ==
    (/\ Recommended
     /\ normalize_interest(tool_call.interest) = "data science"
     /\ tool_call.type_filter = None
     /\ tool_call.level = None)
    => /\ tool_result # <<>>
       /\ \E k \in 1..Len(tool_result) :
             tool_result[k].code \in {"DS101", "DS201", "DS230", "DS310"}
       /\ (tool_call.limit = 4 /\ ~BeginnerWording(tool_call.interest)) =>
             CodesOf(tool_result) = <<"DS101", "DS201", "DS230", "DS310">>

\* C15 witness: an interest that reaches data science by the substring
\* rule, asked with limit 0 and no filters, returned one course, DS101.
Wit_C15 ==
    /\ Recommended
    /\ tool_call.interest = "big data science"
    /\ tool_call.limit = 0
    /\ tool_call.type_filter = None
    /\ tool_call.level = None
    /\ CodesOf(tool_result) = <<"DS101">>

\* C19: summarize_text never surfaces an error or an empty string: when the
\* Responses API call fails or returns an empty result, summarize_text
\* returns "No summary produced."
Orig_C19 ==
    (tool_call.tool = "summarize_text" /\ tool_pc # "called") =>
        /\ tool_pc = "returned"
        /\ tool_result # <<"">>
        /\ (\/ api_response = <<"raise">>
            \/ api_response \in {<<"response", NoAttr>>, <<"response", None>>,
                                 <<"response", "">>})
           => tool_result = <<"No summary produced.">>

\* ---------------------------------------------------------------------------
\* Properties of the chat endpoint (under SpecView)
\* ---------------------------------------------------------------------------

\* the last request supplied a session_id that is not blank
SuppliedSessionId(req) == Strip(GetStr(req.session_id)) # ""

\* C16 as claimed: whenever a chat request that supplies a non-blank
\* session_id is answered, with or without the API key, the response carries
\* exactly the supplied session_id.
Orig_C16 ==
    (response.status = 200 /\ SuppliedSessionId(request)) =>
        response.session_id = request.session_id

\* C16 amended, state part: a request answered with status 200 is one with
\* a non-blank message; its response carries the supplied session_id with
\* surrounding whitespace removed when that is non-empty, and otherwise the
\* identifier generated for this request; this holds with and without the
\* API key.
AnsweredSessionId ==
    response.status = 200 =>
        /\ Strip(GetStr(request.message)) # ""
        /\ response.session_id =
              IF SuppliedSessionId(request)
              THEN <<Strip(GetStr(request.session_id))>>
              ELSE <<NewUuid(uuids_made)>>
        /\ KeyMissing(env_key) => response.agent = "system"

\* C16 amended, step part: a request that reuses the session_id of the
\* previous response and is answered gets the same session_id back, and an
\* identifier is generated only for a request without a session_id or with
\* a blank one.
ReuseStep ==
    /\ (/\ response.status = 200
        /\ request'.session_id = response.session_id
        /\ response'.status = 200)
       => response'.session_id = response.session_id
    /\ uuids_made' # uuids_made => ~SuppliedSessionId(request')

Thm_C16 == []AnsweredSessionId /\ [][ReuseStep]_vars

\* C16 witness: the first request carried no session_id and got a generated
\* one; the second request reused it and got it back, on the normal path.
Wit_C16 ==
    /\ requests_made = 2
    /\ ~KeyMissing(env_key)
    /\ uuids_made = 1
    /\ request.session_id = <<"uuid-1">>
    /\ response.status = 200
    /\ response.session_id = <<"uuid-1">>
    /\ response.agent = "SchedulingAssistant"

\* ---------------------------------------------------------------------------
\* Properties of the registry (under SpecRegistry)
\* ---------------------------------------------------------------------------

\* build_agents has run at most once and every registry handed to a caller
\* is the one built first
BuiltOnce ==
    /\ builds <= 1
    /\ \A t \in Threads : \A i \in 1..Len(thread_agents[t]) : thread_agents[t][i] = 1

\* a registry in the cache stays there
NeverReplaced == AGENTS_CACHE # 0 => AGENTS_CACHE' = AGENTS_CACHE

\* C18: under every interleaving of get_agents calls, build_agents runs at
\* most once, every caller receives the same registry, and the registry in
\* the cache is never replaced.
Orig_C18 == []BuiltOnce /\ [][NeverReplaced]_vars

====
